---- MODULE Spec2Model ----
(***************************************************************************)
(* Help-desk backend (FastAPI + MongoDB + websocket notification channel). *)
(*                                                                         *)
(* The module models                                                       *)
(*   - the in-memory ConnectionManager (app/websocket/manager.py) and the  *)
(*     websocket endpoint whose handlers use it (app/websocket/routes.py), *)
(*   - the NotificationService (app/services/notification_service.py),     *)
(*   - the REST handlers of auth.py, tickets.py and chat.py that the       *)
(*     checked properties are about.                                       *)
(*                                                                         *)
(* Handlers are asyncio coroutines: a step of the model is the code that   *)
(* runs between two awaits, together with the effect of the awaited        *)
(* database or socket operation.  Steps of different handlers interleave.  *)
(***************************************************************************)
EXTENDS Integers, Sequences, FiniteSets, Bags, TLC

(***************************************************************************)
(* Bounds of the model                                                     *)
(***************************************************************************)
MaxSockets == 2        \* websocket connections opened in one behaviour
MaxNotifs  == 1        \* notification documents inserted in one behaviour
MaxTickets == 1        \* tickets created in one behaviour
MaxRegs    == 2        \* POST /api/auth/register requests in one behaviour
MaxReqs    == 2        \* ticket and chat requests in one behaviour
MaxTotal   == 7        \* documents counted by a list query
MaxPage    == 4        \* page asked for by a list query
MaxPerPage == 4        \* per_page asked for by a list query
MaxReplies == 1        \* replies of the handlers to client messages in one behaviour
MaxBroadcasts == 1     \* broadcasts of the manager called on their own
MaxCalls   == 3        \* ticket-writing requests followed to their response

None == "None"

UserIds   == {"u1", "u2", "u3"}
SocketIds == 1..MaxSockets
RegIds    == 1..MaxRegs
ReqIds    == 1..MaxReqs

\* models/user.py UserRole
Roles == {"customer", "agent", "admin"}

VARIABLES
    users,          \* db.users: user id -> stored document
    tickets,        \* db.tickets: ticket id -> stored document
    notifications,  \* db.notifications: set of stored documents
    manager,        \* the global ConnectionManager instance
    sockets,        \* websocket connections and the position of their handlers
    sent,           \* bag of envelopes delivered by websocket.send_text
    close_log,      \* websocket.close calls made by the server
    svc_log,        \* lines logged by create_and_broadcast_notification
    task,           \* the notification-service call in progress
    nnt_done,       \* tickets for which notify_new_ticket has returned
    stats_resp,     \* last response of GET /ws/stats
    messages,       \* db.messages: set of stored documents
    reg,            \* the POST /api/auth/register requests
    reqs,           \* the ticket and chat requests in progress
    delete_log,     \* the delete_one calls of delete_message and their results
    http_resp,      \* last response to a REST request
    paging,         \* the list query in progress and its pagination fields
    call            \* the ticket-writing request whose notifications are awaited

vars == <<users, tickets, notifications, manager, sockets, sent, close_log,
          svc_log, task, nnt_done, stats_resp, messages, reg, reqs, delete_log,
          http_resp, paging, call>>

\* the state of the websocket layer, and the state of the REST handlers
wsVars == <<manager, sockets, sent, close_log, svc_log, task, nnt_done,
            stats_resp>>

httpVars == <<messages, reg, reqs, delete_log, http_resp, paging,
              call>>

(***************************************************************************)
(* Documents                                                               *)
(***************************************************************************)

\* The document register_user stores: the fields of UserCreate (without the
\* password) plus password_hash, status, created_at, updated_at, last_login.
\* No is_active field is written: is_active is "absent" for a missing field,
\* "true" or "false" for a stored boolean.
NewUserDoc(username, email, role) ==
    [username |-> username, email |-> email, role |-> role,
     status |-> "active", is_active |-> "absent", last_login |-> None]

\* The accounts present in the websocket specification: one per role, each
\* stored by register_user.
RoleOfInit == [u \in UserIds |->
                 IF u = "u1" THEN "customer" ELSE IF u = "u2" THEN "agent" ELSE "admin"]

InitUsers == [u \in UserIds |-> NewUserDoc(u, u, RoleOfInit[u])]

\* create_ticket's ticket document
NewTicketDoc(creator) ==
    [created_by |-> creator, status |-> "open", priority |-> "medium",
     assigned_to |-> None, message_count |-> 0]

\* a notification document stored as already read
NewNotificationDoc_read(id, user_id, notification_type, ticket_id) ==
    [id |-> id, user_id |-> user_id, notification_type |-> notification_type,
     ticket_id |-> ticket_id, is_read |-> TRUE, read_at |-> "now"]

\* create_and_broadcast_notification's notification document
NewNotificationDoc(id, user_id, notification_type, ticket_id) ==
    [id |-> id, user_id |-> user_id, notification_type |-> notification_type,
     ticket_id |-> ticket_id, is_read |-> FALSE, read_at |-> None]

(***************************************************************************)
(* Python dict helpers                                                     *)
(***************************************************************************)
DictDel(d, k) == [x \in DOMAIN d \ {k} |-> d[x]]

DictSet(d, k, v) == [x \in DOMAIN d \cup {k} |-> IF x = k THEN v ELSE d[x]]

EmptyDict == [x \in {} |-> None]

(***************************************************************************)
(* ConnectionManager                                                       *)
(***************************************************************************)
NewManager ==
    [active_connections |-> EmptyDict, admin_connections |-> {},
     user_roles |-> EmptyDict]

\* the three statements that end register_connection
register_connection_keep_old(m, ws, user_id, user_role) ==
    IF user_id \in DOMAIN m.active_connections THEN m
    ELSE [active_connections |-> DictSet(m.active_connections, user_id, ws),
          admin_connections |-> IF user_role \in {"admin", "agent"}
                                  THEN m.admin_connections \cup {user_id}
                                  ELSE m.admin_connections,
          user_roles |-> DictSet(m.user_roles, user_id, user_role)]

register_connection_store(m, ws, user_id, user_role) ==
    [active_connections |-> DictSet(m.active_connections, user_id, ws),
     admin_connections |-> IF user_role \in {"admin", "agent"}
                             THEN m.admin_connections \cup {user_id}
                             ELSE m.admin_connections,
     user_roles |-> DictSet(m.user_roles, user_id, user_role)]

\* a disconnect that leaves the user in admin_connections
disconnect_keep_admin(m, user_id) ==
    [active_connections |-> DictDel(m.active_connections, user_id),
     admin_connections |-> m.admin_connections,
     user_roles |-> DictDel(m.user_roles, user_id)]

disconnect(m, user_id) ==
    [active_connections |-> DictDel(m.active_connections, user_id),
     admin_connections |-> m.admin_connections \ {user_id},
     user_roles |-> DictDel(m.user_roles, user_id)]

is_user_connected(m, user_id) == user_id \in DOMAIN m.active_connections

get_connected_users(m) == DOMAIN m.active_connections

(***************************************************************************)
(* Envelopes and json.dumps                                                *)
(***************************************************************************)
\* The Python types of the values of an envelope, by envelope type.  The
\* "notification" envelope carries NotificationResponse.dict(), whose user_id
\* is an ObjectId and whose created_at is a datetime; the other envelopes are
\* built from strings (ids through str(), times through isoformat()).
PayloadTypes(type) ==
    IF type = "notification"
      THEN {"str", "bool", "NoneType", "dict", "ObjectId", "datetime"}
      ELSE {"str", "NoneType", "dict"}

\* json.dumps raises TypeError on a value that is none of the JSON types
JsonTypes == {"str", "int", "float", "bool", "NoneType", "dict", "list"}

json_dumps_ok(type) == PayloadTypes(type) \subseteq JsonTypes

\* ref names what the envelope is about (a notification id, a ticket id, a
\* user id or an error code)
Envelope(ws, type, ref) == [sock |-> ws, type |-> type, ref |-> ToString(ref)]

\* websocket.send_text and websocket.close raise once the server has sent a
\* close message on the socket, or when the peer is gone
SocketRaises(ws) == sockets[ws].app_closed \/ sockets[ws].peer = "gone"

\* a send_personal_message that removes a failing connection from
\* active_connections only
send_personal_message_keep_role(m, out, type, ref, user_id) ==
    IF user_id \in DOMAIN m.active_connections
      THEN LET ws == m.active_connections[user_id] IN
           IF /\ sockets[ws].client_state = "CONNECTED"
              /\ json_dumps_ok(type) /\ ~SocketRaises(ws)
             THEN <<m, out (+) SetToBag({Envelope(ws, type, ref)})>>
             ELSE <<[m EXCEPT !.active_connections = DictDel(@, user_id)], out>>
      ELSE <<m, out>>

\* the state after manager.send_personal_message(message, user_id), as the
\* pair <<manager, sent>>
send_personal_message(m, out, type, ref, user_id) ==
    IF user_id \in DOMAIN m.active_connections
      THEN LET ws == m.active_connections[user_id] IN
           IF sockets[ws].client_state = "CONNECTED"
             THEN IF json_dumps_ok(type) /\ ~SocketRaises(ws)
                    THEN <<m, out (+) SetToBag({Envelope(ws, type, ref)})>>
                    ELSE <<disconnect(m, user_id), out>>
             ELSE <<disconnect(m, user_id), out>>
      ELSE <<m, out>>

(***************************************************************************)
(* websocket_endpoint: one handler per connection                          *)
(*   phase  idle       the connection has not been opened                  *)
(*          authed     accepted, current_user set, about to call           *)
(*                     register_connection                                 *)
(*          replacing  inside register_connection, awaiting old.close()    *)
(*          loop       registered, awaiting receive_text                   *)
(*          failed     in the except block, before finally                 *)
(*          done       the handler has returned                            *)
(***************************************************************************)
IdleSocket ==
    [phase |-> "idle", token |-> None, role |-> None,
     client_state |-> "CONNECTING", app_closed |-> FALSE, peer |-> "open",
     old |-> None]

\* a connection whose handler has returned: its locals are gone
DoneSocket ==
    [phase |-> "done", token |-> None, role |-> None,
     client_state |-> "DISCONNECTED", app_closed |-> TRUE, peer |-> "gone",
     old |-> None]

\* the tokens clients present: a token whose sub is the id of a stored user,
\* and a token that is not of the form a.b.c
Tokens == UserIds \cup {"malformed"}

\* ... and also a token jwt.decode rejects, a token without sub, and a token
\* whose sub is the id of no stored user
AllTokens == Tokens \cup {"undecodable", "nosub", "unknown"}

HTTPException(status_code, detail) ==
    [exc |-> "HTTPException", status_code |-> status_code, detail |-> detail]

\* the try block without the test of the user's status
auth_try_any_status(token) ==
    IF token = "malformed" THEN HTTPException(401, "Invalid token format")
    ELSE IF token = "undecodable"
           THEN [exc |-> "JWTError", status_code |-> 0, detail |-> "jwt.decode"]
    ELSE IF token = "nosub" THEN HTTPException(401, "Invalid token")
    ELSE IF token \notin DOMAIN users THEN HTTPException(404, "User not found")
    ELSE [exc |-> "none", status_code |-> 200, detail |-> "user"]

\* the body of get_current_user_websocket's try block: the exception it raises,
\* or exc "none" when it returns the user
auth_try(token) ==
    IF token = "malformed" THEN HTTPException(401, "Invalid token format")
    ELSE IF token = "undecodable"
      THEN [exc |-> "JWTError", status_code |-> 0, detail |-> "jwt.decode"]
    ELSE IF token = "nosub" THEN HTTPException(401, "Invalid token")
    ELSE IF token \notin DOMAIN users THEN HTTPException(404, "User not found")
    ELSE IF users[token].status # "active" THEN HTTPException(400, "Inactive user")
    ELSE [exc |-> "none", status_code |-> 200, detail |-> "user"]

\* get_current_user_websocket: "except JWTError" turns a JWTError into 401;
\* "except Exception" catches every other exception of the try block, the
\* HTTPExceptions raised in it included, and raises 500 in its place
get_current_user_websocket(token) ==
    LET raised == auth_try(token) IN
    IF raised.exc = "none" THEN raised
    ELSE IF raised.exc = "JWTError" THEN HTTPException(401, "Invalid token")
    ELSE HTTPException(500, "Authentication error")

\* websocket.send_text(env) on ws: the bag of delivered envelopes afterwards
SendText(out, ws, type, ref) ==
    IF SocketRaises(ws) THEN out ELSE out (+) SetToBag({Envelope(ws, type, ref)})

\* websocket.close(code) by the server
CloseCall(by, ws, code) ==
    [by |-> by, sock |-> ws, code |-> code, raised |-> SocketRaises(ws)]

\* a connection whose authentication failed: the handler has returned; token
\* and peer keep what the client presented and whether it was still there
RejectedSocket(tok, peer) == [DoneSocket EXCEPT !.token = tok, !.peer = peer]

\* a client opens /ws/connect?token=...: the handler accepts the connection and
\* awaits get_current_user_websocket(token); on HTTPException it sends an
\* "error" envelope, closes with 1008 and returns (current_user is None, so the
\* finally block leaves the manager alone).  If the client has gone meanwhile
\* the send raises: the outer except block tries to send the 500 envelope,
\* which raises again, and no close is attempted.
Connect(s, tok, peer) ==
    /\ sockets[s].phase = "idle"
    /\ \A r \in SocketIds : r < s => sockets[r].phase # "idle"
    /\ LET auth == get_current_user_websocket(tok) IN
       IF auth.exc = "none"
         THEN /\ sockets' = [sockets EXCEPT ![s] = [@ EXCEPT !.phase = "authed",
                                                             !.token = tok,
                                                             !.role = users[tok].role,
                                                             !.client_state = "CONNECTED",
                                                             !.peer = peer]]
              /\ UNCHANGED <<sent, close_log>>
         ELSE /\ sent' = IF peer = "open"
                           THEN SendText(sent, s, "error", auth.status_code)
                           ELSE sent
              /\ close_log' = IF peer = "open"
                                THEN close_log \cup {CloseCall(s, s, 1008)}
                                ELSE close_log
              /\ sockets' = [sockets EXCEPT ![s] = RejectedSocket(tok, peer)]
    /\ UNCHANGED <<users, tickets, notifications, manager, svc_log, task,
                   nnt_done, stats_resp,
                   httpVars>>

\* a register_connection that also pushes the user's stored unread
\* notifications on the new connection
StoreAndConfirm_flush(s) ==
    LET u == sockets[s].token IN
    /\ manager' = register_connection_store(manager, s, u, sockets[s].role)
    /\ sent' = SendText(sent, s, "connection_established", u)
                  (+) SetToBag({Envelope(s, "notification", d.id) :
                                  d \in {n \in notifications :
                                             n.user_id = u /\ ~n.is_read}})
    /\ sockets' = [sockets EXCEPT ![s] =
                      [@ EXCEPT !.phase = IF SocketRaises(s) THEN "failed" ELSE "loop",
                                !.old = None]]

\* the end of register_connection and the "connection_established" envelope the
\* handler sends next; a send that raises takes the handler to its except block
StoreAndConfirm(s) ==
    LET u == sockets[s].token IN
    /\ manager' = register_connection_store(manager, s, u, sockets[s].role)
    /\ sent' = SendText(sent, s, "connection_established", u)
    /\ sockets' = [sockets EXCEPT ![s] =
                      [@ EXCEPT !.phase = IF SocketRaises(s) THEN "failed" ELSE "loop",
                                !.old = None]]

\* manager.register_connection up to its first await: with no connection of the
\* user registered it runs to its end; otherwise it awaits old_websocket.close
RegisterConnection(s) ==
    /\ sockets[s].phase = "authed"
    /\ LET u == sockets[s].token IN
       IF u \in DOMAIN manager.active_connections
         THEN LET old == manager.active_connections[u] IN
              /\ close_log' = close_log \cup {CloseCall(s, old, 1000)}
              /\ sockets' = [sockets EXCEPT ![s] = [@ EXCEPT !.phase = "replacing",
                                                             !.old = old],
                                            ![old].app_closed = TRUE]
              /\ UNCHANGED <<manager, sent>>
         ELSE /\ StoreAndConfirm(s)
              /\ UNCHANGED close_log
    /\ UNCHANGED <<users, tickets, notifications, svc_log, task, nnt_done,
                   stats_resp,
                   httpVars>>

\* register_connection after old_websocket.close returned or raised
RegisterReplace(s) ==
    /\ sockets[s].phase = "replacing"
    /\ StoreAndConfirm(s)
    /\ UNCHANGED <<users, tickets, notifications, close_log, svc_log, task,
                   nnt_done, stats_resp,
                   httpVars>>

\* receive_text raises WebSocketDisconnect (the peer left, or the server closed
\* the socket); the finally block calls manager.disconnect(current_user.id)
HandlerDisconnect(s) ==
    /\ sockets[s].phase = "loop"
    /\ SocketRaises(s)
    /\ manager' = disconnect(manager, sockets[s].token)
    /\ sockets' = [sockets EXCEPT ![s] = DoneSocket]
    /\ UNCHANGED <<users, tickets, notifications, sent, close_log, svc_log,
                   task, nnt_done, stats_resp,
                   httpVars>>

\* the except block without the cleanup of the finally block
HandlerFinally_no_cleanup(s) ==
    /\ sockets[s].phase = "failed"
    /\ sent' = SendText(sent, s, "error", 500)
    /\ close_log' = close_log \cup {CloseCall(s, s, 1011)}
    /\ manager' = manager
    /\ sockets' = [sockets EXCEPT ![s] = DoneSocket]
    /\ UNCHANGED <<users, tickets, notifications, svc_log, task, nnt_done,
                   stats_resp,
                   httpVars>>

\* except Exception: the error envelope and close(1011) are attempted, then the
\* finally block calls manager.disconnect(current_user.id)
HandlerFinally(s) ==
    /\ sockets[s].phase = "failed"
    /\ sent' = SendText(sent, s, "error", 500)
    /\ close_log' = close_log \cup {CloseCall(s, s, 1011)}
    /\ manager' = disconnect(manager, sockets[s].token)
    /\ sockets' = [sockets EXCEPT ![s] = DoneSocket]
    /\ UNCHANGED <<users, tickets, notifications, svc_log, task, nnt_done,
                   stats_resp,
                   httpVars>>

\* the client of a connection goes away
PeerDrop(s) ==
    /\ sockets[s].phase \in {"authed", "replacing", "loop"}
    /\ sockets[s].peer = "open"
    /\ sockets' = [sockets EXCEPT ![s].peer = "gone"]
    /\ UNCHANGED <<users, tickets, notifications, manager, sent, close_log,
                   svc_log, task, nnt_done, stats_resp,
                   httpVars>>

\* the envelopes the handlers sent in reply to client messages so far
Replies ==
    LET R == {e \in BagToSet(sent) :
                 e.type \in {"pong", "notification_read_confirmed"}}
    IN  BagCardinality([e \in R |-> sent[e]])

\* A message the client sent while it was there is returned by receive_text
\* also after the server has closed the socket (it was queued before).
\*
\* receive_text returns {"type": "ping"} and the handler sends the "pong"
\* envelope; peer is the state of the client when the pong is sent: with the
\* client gone or the socket closed by the server send_text raises and the
\* handler enters its except block
ClientPing(s, peer) ==
    /\ sockets[s].phase = "loop"
    /\ sockets[s].peer = "open"
    /\ Replies < MaxReplies
    /\ LET ok == peer = "open" /\ ~sockets[s].app_closed IN
       /\ sent' = IF ok THEN sent (+) SetToBag({Envelope(s, "pong", 0)}) ELSE sent
       /\ sockets' = [sockets EXCEPT ![s] =
                         [@ EXCEPT !.peer = peer,
                                   !.phase = IF ok THEN "loop" ELSE "failed"]]
    /\ UNCHANGED <<users, tickets, notifications, manager, close_log, svc_log,
                   task, nnt_done, stats_resp,
                   httpVars>>

\* receive_text returns a text json.loads rejects (or a JSON value that is not
\* an object): the exception takes the handler to its except block
ClientMalformed(s) ==
    /\ sockets[s].phase = "loop"
    /\ sockets[s].peer = "open"
    /\ sockets' = [sockets EXCEPT ![s].phase = "failed"]
    /\ UNCHANGED <<users, tickets, notifications, manager, sent, close_log,
                   svc_log, task, nnt_done, stats_resp,
                   httpVars>>

\* receive_text returns {"type": "mark_notification_read", "notification_id":
\* nid}: handle_notification_read marks the user's notification read and sends
\* the confirmation with manager.send_personal_message; the handler stays in
\* its loop
ClientMarkRead(s, nid) ==
    /\ sockets[s].phase = "loop"
    /\ sockets[s].peer = "open"
    /\ Replies < MaxReplies
    /\ LET u == sockets[s].token
           r == send_personal_message(manager, sent,
                                      "notification_read_confirmed", nid, u)
       IN  /\ notifications' =
                 {IF n.id = nid /\ n.user_id = u
                    THEN [n EXCEPT !.is_read = TRUE, !.read_at = "now"]
                    ELSE n : n \in notifications}
           /\ manager' = r[1]
           /\ sent' = r[2]
    /\ UNCHANGED <<users, tickets, sockets, close_log, svc_log, task, nnt_done,
                   stats_resp,
                   httpVars>>

(***************************************************************************)
(* NotificationService                                                     *)
(* One service call runs at a time in the model; its steps interleave with *)
(* the websocket handlers.  Every call boundary is a scheduling point.     *)
(*   pc  cab_deliver  create_and_broadcast_notification after insert_one   *)
(*                    and find_one, before the is_user_connected test      *)
(*       nnt_resolve  notify_new_ticket before its database reads          *)
(*       ctn_loop     create_ticket_notification, in the loop over users   *)
(*       upd_loop     manager.send_ticket_update, in the loop over users   *)
(*       bcast        manager.broadcast_to_admins, in the loop over the    *)
(*                    copy of admin_connections                            *)
(***************************************************************************)
\* snapshot, conns: the copy a broadcast iterates over; failed: its
\* disconnected_users; delivered, skipped: the users it has sent to or found
\* unregistered; yielded: a send_text was awaited after the first failure;
\* calls: the broadcasts called on their own so far
IdleTask ==
    [op |-> "idle", pc |-> "idle", user |-> None, nid |-> 0, ticket |-> None,
     todo |-> {}, targets |-> {}, snapshot |-> {}, failed |-> {},
     delivered |-> {}, skipped |-> {}, yielded |-> FALSE, conns |-> EmptyDict,
     calls |-> 0]

NextNotificationId == Cardinality(notifications) + 1

NextTicketId == Cardinality(DOMAIN tickets) + 1

LogLine(line, nid, user_id) == [line |-> line, nid |-> nid, user |-> user_id]

\* create_and_broadcast_notification(user_id, SYSTEM_ALERT, ...) called on its
\* own: the notification document is inserted
CreateNotification(u) ==
    /\ task.op = "idle"
    /\ NextNotificationId <= MaxNotifs
    /\ notifications' = notifications \cup
          {NewNotificationDoc(NextNotificationId, u, "system_alert", None)}
    /\ task' = [IdleTask EXCEPT !.op = "notify", !.pc = "cab_deliver",
                                !.user = u, !.nid = NextNotificationId]
    /\ UNCHANGED <<users, tickets, manager, sockets, sent, close_log, svc_log,
                   nnt_done, stats_resp,
                   httpVars>>

\* the users create_ticket_notification(notify_all_admins=True) notifies:
\* db.users.find({"role": {"$in": ["admin", "agent"]}, "is_active": True}),
\* and the ticket's creator when that list is empty
users_to_notify(ticket_id) ==
    LET admin_users == {u \in DOMAIN users : /\ users[u].role \in {"admin", "agent"}
                                             /\ users[u].is_active = "true"}
    IN  IF admin_users = {} THEN {tickets[ticket_id].created_by} ELSE admin_users

\* create_and_broadcast_notification from "Broadcast via WebSocket if user is
\* connected" to its return
CabDeliver ==
    /\ task.pc = "cab_deliver"
    /\ LET u == task.user
           r == send_personal_message(manager, sent, "notification", task.nid, u)
       IN  /\ IF is_user_connected(manager, u)
                THEN /\ manager' = r[1]
                     /\ sent' = r[2]
                     /\ svc_log' = svc_log \cup {LogLine(74, task.nid, u),
                                                 LogLine(78, task.nid, u)}
                ELSE /\ svc_log' = svc_log \cup {LogLine(76, task.nid, u),
                                                 LogLine(78, task.nid, u)}
                     /\ UNCHANGED <<manager, sent>>
           /\ task' = IF task.op = "notify" THEN IdleTask
                      ELSE [task EXCEPT !.pc = "ctn_loop", !.todo = @ \ {u}]
    /\ UNCHANGED <<users, tickets, notifications, sockets, close_log, nnt_done,
                   stats_resp,
                   httpVars>>

\* POST /api/tickets: the ticket is inserted, then notify_new_ticket is awaited
CreateTicket(u) ==
    /\ task.op = "idle"
    /\ NextTicketId <= MaxTickets
    /\ u \in DOMAIN users /\ users[u].status = "active"
    /\ tickets' = DictSet(tickets, NextTicketId, NewTicketDoc(u))
    /\ task' = [IdleTask EXCEPT !.op = "new_ticket", !.pc = "nnt_resolve",
                                !.ticket = NextTicketId]
    /\ UNCHANGED <<users, notifications, manager, sockets, sent, close_log,
                   svc_log, nnt_done, stats_resp,
                   httpVars>>

\* notify_new_ticket's aggregate and create_ticket_notification's reads
NntResolve ==
    /\ task.pc = "nnt_resolve"
    /\ IF task.ticket \in DOMAIN tickets
         THEN /\ task' = [task EXCEPT !.pc = "ctn_loop",
                                      !.targets = users_to_notify(task.ticket),
                                      !.todo = users_to_notify(task.ticket)]
              /\ UNCHANGED nnt_done
         ELSE /\ task' = IdleTask
              /\ nnt_done' = nnt_done \cup {task.ticket}
    /\ UNCHANGED <<users, tickets, notifications, manager, sockets, sent,
                   close_log, svc_log, stats_resp,
                   httpVars>>

\* for user_id in set(users_to_notify): create_and_broadcast_notification(...)
CtnInsert(u) ==
    /\ task.pc = "ctn_loop"
    /\ u \in task.todo
    /\ NextNotificationId <= MaxNotifs
    /\ notifications' = notifications \cup
          {NewNotificationDoc(NextNotificationId, u, "ticket_created", task.ticket)}
    /\ task' = [task EXCEPT !.pc = "cab_deliver", !.user = u,
                            !.nid = NextNotificationId]
    /\ UNCHANGED <<users, tickets, manager, sockets, sent, close_log, svc_log,
                   nnt_done, stats_resp,
                   httpVars>>

\* manager.send_ticket_update(ticket_data, users_to_notify)
CtnUpdateBegin ==
    /\ task.pc = "ctn_loop"
    /\ task.todo = {}
    /\ task' = [task EXCEPT !.pc = "upd_loop", !.todo = task.targets]
    /\ UNCHANGED <<users, tickets, notifications, manager, sockets, sent,
                   close_log, svc_log, nnt_done, stats_resp,
                   httpVars>>

UpdSend(u) ==
    /\ task.pc = "upd_loop"
    /\ u \in task.todo
    /\ LET r == send_personal_message(manager, sent, "ticket_update", task.ticket, u)
       IN  manager' = r[1] /\ sent' = r[2]
    /\ task' = [task EXCEPT !.todo = @ \ {u}]
    /\ UNCHANGED <<users, tickets, notifications, sockets, close_log, svc_log,
                   nnt_done, stats_resp,
                   httpVars>>

\* manager.send_new_ticket_alert: broadcast_to_admins copies admin_connections
BcastBegin ==
    /\ task.pc = "upd_loop"
    /\ task.todo = {}
    /\ task' = [task EXCEPT !.pc = "bcast", !.todo = manager.admin_connections,
                            !.snapshot = manager.admin_connections,
                            !.failed = {}]
    /\ UNCHANGED <<users, tickets, notifications, manager, sockets, sent,
                   close_log, svc_log, nnt_done, stats_resp,
                   httpVars>>

\* manager.send_new_ticket_alert(ticket_data) called on its own
AlertBegin ==
    /\ task.op = "idle"
    /\ task.calls < MaxBroadcasts
    /\ task' = [IdleTask EXCEPT !.op = "alert", !.pc = "bcast",
                                !.calls = task.calls + 1,
                                !.todo = manager.admin_connections,
                                !.snapshot = manager.admin_connections]
    /\ UNCHANGED <<users, tickets, notifications, manager, sockets, sent,
                   close_log, svc_log, nnt_done, stats_resp,
                   httpVars>>

\* an iteration of broadcast_to_admins' loop that ends the loop at the first
\* failure
BcastSend_abort(u) ==
    /\ task.pc = "bcast" /\ task.op # "all"
    /\ u \in task.todo
    /\ IF u \in DOMAIN manager.active_connections
         THEN LET ws == manager.active_connections[u]
                  ok == /\ sockets[ws].client_state = "CONNECTED"
                        /\ json_dumps_ok("new_ticket")
                        /\ ~SocketRaises(ws)
              IN  /\ sent' = IF ok THEN sent (+) SetToBag({Envelope(ws, "new_ticket",
                                                                    task.ticket)})
                             ELSE sent
                  /\ task' = IF ok
                               THEN [task EXCEPT !.todo = @ \ {u},
                                                 !.delivered = @ \cup {u},
                                                 !.yielded = task.failed # {}]
                               ELSE [task EXCEPT !.todo = {},
                                                 !.failed = @ \cup {u}]
         ELSE /\ task' = [task EXCEPT !.todo = @ \ {u}, !.skipped = @ \cup {u}]
              /\ UNCHANGED sent
    /\ UNCHANGED <<users, tickets, notifications, manager, sockets, close_log,
                   svc_log, nnt_done, stats_resp,
                   httpVars>>

\* one iteration of broadcast_to_admins' loop over the copy of
\* admin_connections: the user's socket is looked up in active_connections
BcastSend(u) ==
    /\ task.pc = "bcast" /\ task.op # "all"
    /\ u \in task.todo
    /\ IF u \in DOMAIN manager.active_connections
         THEN LET ws == manager.active_connections[u]
                  ok == /\ sockets[ws].client_state = "CONNECTED"
                        /\ json_dumps_ok("new_ticket")
                        /\ ~SocketRaises(ws)
              IN  /\ sent' = IF ok THEN sent (+) SetToBag({Envelope(ws, "new_ticket",
                                                                    task.ticket)})
                             ELSE sent
                  /\ task' = IF ok
                               THEN [task EXCEPT !.todo = @ \ {u},
                                                 !.delivered = @ \cup {u},
                                                 !.yielded = @ \/ task.failed # {}]
                               ELSE [task EXCEPT !.todo = @ \ {u},
                                                 !.failed = @ \cup {u}]
         ELSE /\ task' = [task EXCEPT !.todo = @ \ {u}, !.skipped = @ \cup {u}]
              /\ UNCHANGED sent
    /\ UNCHANGED <<users, tickets, notifications, manager, sockets, close_log,
                   svc_log, nnt_done, stats_resp,
                   httpVars>>

\* manager.broadcast_to_all(message) called on its own: the loop runs over a
\* copy of active_connections
AllBegin ==
    /\ task.op = "idle"
    /\ task.calls < MaxBroadcasts
    /\ task' = [IdleTask EXCEPT !.op = "all", !.pc = "bcast",
                                !.calls = task.calls + 1,
                                !.todo = DOMAIN manager.active_connections,
                                !.snapshot = DOMAIN manager.active_connections,
                                !.conns = manager.active_connections]
    /\ UNCHANGED <<users, tickets, notifications, manager, sockets, sent,
                   close_log, svc_log, nnt_done, stats_resp,
                   httpVars>>

\* one iteration of broadcast_to_all's loop: the socket is the one of the copy
AllSend(u) ==
    /\ task.pc = "bcast" /\ task.op = "all"
    /\ u \in task.todo
    /\ LET ws == task.conns[u]
           ok == /\ sockets[ws].client_state = "CONNECTED"
                 /\ json_dumps_ok("system_alert")
                 /\ ~SocketRaises(ws)
       IN  /\ sent' = IF ok THEN sent (+) SetToBag({Envelope(ws, "system_alert",
                                                             task.ticket)})
                      ELSE sent
           /\ task' = IF ok
                        THEN [task EXCEPT !.todo = @ \ {u},
                                          !.delivered = @ \cup {u},
                                          !.yielded = @ \/ task.failed # {}]
                        ELSE [task EXCEPT !.todo = @ \ {u},
                                          !.failed = @ \cup {u}]
    /\ UNCHANGED <<users, tickets, notifications, manager, sockets, close_log,
                   svc_log, nnt_done, stats_resp,
                   httpVars>>

RECURSIVE disconnect_all(_, _)
disconnect_all(m, S) ==
    IF S = {} THEN m
    ELSE LET u == CHOOSE x \in S : TRUE IN disconnect_all(disconnect(m, u), S \ {u})

\* the cleanup loop of broadcast_to_admins and broadcast_to_all:
\* self.disconnect(user_id) for every user of disconnected_users; the
\* broadcast returns, and with it notify_new_ticket
BcastEnd ==
    /\ task.pc = "bcast"
    /\ task.todo = {}
    /\ manager' = disconnect_all(manager, task.failed)
    /\ nnt_done' = IF task.op = "new_ticket" THEN nnt_done \cup {task.ticket}
                   ELSE nnt_done
    /\ task' = [IdleTask EXCEPT !.calls = task.calls]
    /\ UNCHANGED <<users, tickets, notifications, sockets, sent, close_log,
                   svc_log, stats_resp,
                   httpVars>>

(***************************************************************************)
(* Pagination of get_tickets and get_ticket_messages                       *)
(***************************************************************************)
\* math.floor(total / per_page)
math_floor_div(total, per_page) == total \div per_page

\* math.ceil(total / per_page) for a count and a positive per_page
math_ceil_div(total, per_page) ==
    (total \div per_page) + (IF total % per_page = 0 THEN 0 ELSE 1)

IdlePaging ==
    [pc |-> "idle", total |-> 0, page |-> 1, per_page |-> 1, skip |-> 0,
     pages |-> 0, has_next |-> FALSE, has_prev |-> FALSE]

\* the query parameters FastAPI lets through (page >= 1, 1 <= per_page) and
\* the result of count_documents
PagingQuery(total, page, per_page) ==
    [IdlePaging EXCEPT !.pc = "counted", !.total = total, !.page = page,
                       !.per_page = per_page]

\* skip and pages as computed after count_documents, and the has_next and
\* has_prev fields of the response
Paginate ==
    /\ paging.pc = "counted"
    /\ LET skip  == (paging.page - 1) * paging.per_page
           pages == math_ceil_div(paging.total, paging.per_page)
       IN paging' = [paging EXCEPT !.pc = "done", !.skip = skip,
                                   !.pages = pages,
                                   !.has_next = paging.page < pages,
                                   !.has_prev = paging.page > 1]
    /\ UNCHANGED <<users, tickets, notifications, wsVars, messages, reg, reqs,
                   delete_log, http_resp, call>>

(***************************************************************************)
(* Ticket-writing requests and their notification calls                    *)
(***************************************************************************)
\* the handlers that write a ticket and then await notification calls
NotifyingHandlers ==
    {"create_ticket", "update_ticket", "assign_ticket", "create_ticket_for_user"}

\* the NotificationService methods whose body is "try: ... except Exception:
\* logger.error(...)", so that they return whatever happens in them
SwallowingNotifiers ==
    {"notify_new_ticket", "notify_ticket_assignment",
     "notify_ticket_status_change", "notify_ticket_resolved"}

IdleCall ==
    [pc |-> "idle", n |-> 0, handler |-> "none", ticket |-> 0,
     written |-> NewTicketDoc(None), pending |-> <<>>, logged |-> {},
     status_code |-> 0]

\* the notification calls a handler awaits after its ticket write, in order
NotificationCalls(handler, old_status, new_status) ==
    IF handler = "create_ticket" THEN <<"notify_new_ticket">>
    ELSE IF handler = "create_ticket_for_user"
           THEN <<"notify_new_ticket", "create_and_broadcast_notification">>
    ELSE IF handler = "update_ticket"
           THEN IF old_status = new_status THEN <<>>
                ELSE IF new_status = "resolved" THEN <<"notify_ticket_resolved">>
                ELSE <<"notify_ticket_status_change">>
    ELSE IF old_status = "open"
           THEN <<"notify_ticket_assignment", "notify_ticket_status_change">>
    ELSE <<"notify_ticket_assignment">>

\* the document a handler's ticket write leaves in db.tickets
TicketWritten(handler, user_id, ticket_id, new_status) ==
    IF handler \in {"create_ticket", "create_ticket_for_user"}
      THEN NewTicketDoc(user_id)
    ELSE IF handler = "update_ticket"
      THEN [tickets[ticket_id] EXCEPT !.status = new_status]
    ELSE [tickets[ticket_id] EXCEPT !.assigned_to = user_id,
                                    !.status = "in_progress"]

\* a handler up to and including its ticket write (insert_one or update_one);
\* user_id is the creator of a new ticket or the assignee
TicketWrite(handler, user_id, ticket_id, new_status) ==
    /\ call.pc \in {"idle", "done"}
    /\ call.n < MaxCalls
    /\ user_id \in DOMAIN users
    /\ IF handler \in {"create_ticket", "create_ticket_for_user"}
         THEN ticket_id = NextTicketId /\ ticket_id <= MaxTickets
                 /\ new_status = "open"
         ELSE ticket_id \in DOMAIN tickets
    /\ handler = "assign_ticket" =>
          users[user_id].role \in {"agent", "admin"} /\ new_status = "in_progress"
    /\ LET doc == TicketWritten(handler, user_id, ticket_id, new_status)
           old == IF ticket_id \in DOMAIN tickets
                    THEN tickets[ticket_id].status ELSE "open"
       IN  /\ tickets' = DictSet(tickets, ticket_id, doc)
           /\ call' = [IdleCall EXCEPT
                         !.pc = "notify", !.n = call.n + 1, !.handler = handler,
                         !.ticket = ticket_id, !.written = doc,
                         !.pending = NotificationCalls(handler, old, new_status)]
    /\ UNCHANGED <<users, notifications, wsVars, messages, reg, reqs,
                   delete_log, http_resp, paging>>

\* the user the notification of a call is created for
NotifiedUser(f) ==
    IF f = "notify_ticket_assignment" THEN tickets[call.ticket].assigned_to
    ELSE tickets[call.ticket].created_by

NotificationTypeOf(f) ==
    IF f \in {"notify_new_ticket", "create_and_broadcast_notification"}
      THEN "ticket_created"
    ELSE IF f = "notify_ticket_assignment" THEN "ticket_assigned"
    ELSE IF f = "notify_ticket_resolved" THEN "ticket_resolved"
    ELSE "ticket_updated"

\* the next awaited notification call runs to its end.  raises: an operation
\* in it (a database read, insert_one, building the response) raises.  A
\* swallowing notifier logs the exception and returns;
\* create_and_broadcast_notification logs it and re-raises, and the handler
\* that awaits it directly has no except clause: the request ends with 500.
NotifyCall(raises) ==
    /\ call.pc = "notify"
    /\ call.pending # <<>>
    /\ LET f == Head(call.pending) IN
       IF raises
         THEN /\ call' = IF f \in SwallowingNotifiers
                           THEN [call EXCEPT !.pending = Tail(@),
                                             !.logged = @ \cup {f}]
                           ELSE [call EXCEPT !.pc = "done", !.pending = <<>>,
                                             !.logged = @ \cup {f},
                                             !.status_code = 500]
              /\ UNCHANGED notifications
         ELSE /\ NextNotificationId <= MaxNotifs + 1
              /\ notifications' = notifications \cup
                    {NewNotificationDoc(NextNotificationId, NotifiedUser(f),
                                        NotificationTypeOf(f), call.ticket)}
              /\ call' = [call EXCEPT !.pending = Tail(@)]
    /\ UNCHANGED <<users, tickets, wsVars, messages, reg, reqs, delete_log,
                   http_resp, paging>>

\* the handler returns its response: 201 from the two creating handlers
CallReturns ==
    /\ call.pc = "notify"
    /\ call.pending = <<>>
    /\ call' = [call EXCEPT !.pc = "done",
                  !.status_code = IF call.handler \in {"create_ticket",
                                                       "create_ticket_for_user"}
                                    THEN 201 ELSE 200]
    /\ UNCHANGED <<users, tickets, notifications, wsVars, messages, reg, reqs,
                   delete_log, http_resp, paging>>

(***************************************************************************)
(* Admin requests on users (routes/admin.py)                               *)
(***************************************************************************)
\* get_admin_user lets the request of caller through: a stored user whose
\* status is active and whose role is admin
get_admin_user(caller) ==
    /\ caller \in DOMAIN users
    /\ users[caller].status = "active"
    /\ users[caller].role = "admin"

\* PUT /api/admin/users/{user_id}/status by an admin: get_current_user sets the
\* caller's last_login, update_one sets the status
UpdateUserStatus(caller, user_id, status_update) ==
    /\ get_admin_user(caller)
    /\ user_id \in DOMAIN users
    /\ users' = [[users EXCEPT ![caller].last_login = "now"]
                    EXCEPT ![user_id].status = status_update]
    /\ UNCHANGED <<tickets, notifications, wsVars, httpVars>>

\* PUT /api/admin/users/{user_id}/role by an admin
UpdateUserRole(caller, user_id, role) ==
    /\ get_admin_user(caller)
    /\ user_id \in DOMAIN users
    /\ users' = [[users EXCEPT ![caller].last_login = "now"]
                    EXCEPT ![user_id].role = role]
    /\ UNCHANGED <<tickets, notifications, wsVars, httpVars>>

(***************************************************************************)
(* GET /ws/stats                                                           *)
(***************************************************************************)
Callers == UserIds \cup {"anonymous"}

\* no request to GET /ws/stats has been answered yet
NoStats ==
    [caller |-> None, status |-> 0, connected_users |-> {},
     connected_admins |-> {}]

\* get_websocket_stats declares no dependency: every caller is answered
get_websocket_stats(caller) ==
    [caller |-> caller, status |-> 200,
     connected_users |-> get_connected_users(manager),
     connected_admins |-> manager.admin_connections]

GetWebsocketStats(caller) ==
    /\ stats_resp' = get_websocket_stats(caller)
    /\ UNCHANGED <<users, tickets, notifications, manager, sockets, sent,
                   close_log, svc_log, task, nnt_done,
                   httpVars>>

(***************************************************************************)
(* POST /api/auth/register                                                 *)
(*   pc  idle    the request has not arrived                               *)
(*       insert  find_one found no user with the email or the username     *)
(*       done    answered                                                  *)
(***************************************************************************)
\* request bodies: usernames and e-mail addresses as the client writes them
RawUsernames == {"amy", "bob", "Bob"}
RawEmails == {"amy@x.io", "bob@x.io", "bob@X.io"}

\* UserBase.validate_username returns v.lower()
validate_username(v) == IF v = "Bob" THEN "bob" ELSE v

\* EmailStr keeps the local part and lower-cases the domain
EmailStr(v) == IF v = "bob@X.io" THEN "bob@x.io" ELSE v

\* _create_indexes: the unique indexes of db.users
UniqueUserIndexes == {"email", "username"}

\* a users collection without unique indexes
duplicate_key_no_index(coll, doc) == FALSE

\* insert_one raises DuplicateKeyError when a stored document has the value of
\* the new one in a uniquely indexed field
duplicate_key(coll, doc) ==
    \E k \in DOMAIN coll : \E f \in UniqueUserIndexes : coll[k][f] = doc[f]

IdleReg ==
    [pc |-> "idle", email |-> None, username |-> None, role |-> None,
     existed |-> FALSE, status |-> 0, detail |-> None, stored |-> None]

\* the ObjectId insert_one gives the user of request r
NewUserId(r) == "n" \o ToString(r)

\* register_user up to the return of find_one: 400 when a stored user has the
\* e-mail or the username
RegisterFind(r, raw_email, raw_username, role) ==
    /\ reg[r].pc = "idle"
    /\ \A q \in RegIds : q < r => reg[q].pc # "idle"
    /\ LET email == EmailStr(raw_email)
           username == validate_username(raw_username)
           matches == {k \in DOMAIN users : \/ users[k].email = email
                                            \/ users[k].username = username}
       IN  IF matches # {}
             THEN \E existing_user \in matches :
                    reg' = [reg EXCEPT ![r] =
                       [IdleReg EXCEPT
                          !.pc = "done", !.email = email, !.username = username,
                          !.role = role, !.existed = TRUE, !.status = 400,
                          !.detail = IF users[existing_user].email = email
                                       THEN "Email already registered"
                                       ELSE "Username already taken"]]
             ELSE reg' = [reg EXCEPT ![r] =
                       [IdleReg EXCEPT !.pc = "insert", !.email = email,
                                       !.username = username, !.role = role]]
    /\ UNCHANGED <<users, tickets, notifications, wsVars, paging, call, delete_log, messages, reqs,
                   http_resp>>

\* register_user from insert_one to its response: an insert the unique indexes
\* reject raises DuplicateKeyError, which nothing catches (500)
RegisterInsert(r) ==
    /\ reg[r].pc = "insert"
    /\ LET doc == NewUserDoc(reg[r].username, reg[r].email, reg[r].role) IN
       IF duplicate_key(users, doc)
         THEN /\ reg' = [reg EXCEPT ![r] = [@ EXCEPT !.pc = "done", !.status = 500,
                                              !.detail = "DuplicateKeyError"]]
              /\ UNCHANGED users
         ELSE /\ users' = DictSet(users, NewUserId(r), doc)
              /\ reg' = [reg EXCEPT ![r] = [@ EXCEPT !.pc = "done", !.status = 201,
                                              !.stored = NewUserId(r)]]
    /\ UNCHANGED <<tickets, notifications, wsVars, paging, call, delete_log, messages, reqs, http_resp>>

(***************************************************************************)
(* Ticket and chat requests (routes/tickets.py, routes/chat.py)            *)
(* Every handler first runs get_current_active_user.                       *)
(*   pc  idle           the request has not arrived                        *)
(*       list           get_tickets before its queries                     *)
(*       check          before check_ticket_permissions                    *)
(*       read           get_ticket before its aggregate                    *)
(*       find_original  update_ticket before find_one                      *)
(*       update_one     update_ticket before update_one                    *)
(*       check_again    update_ticket inside its closing get_ticket call   *)
(*       insert         send_message before insert_one                     *)
(*       inc            send_message before the $inc of message_count      *)
(*       find           delete_message before find_one                     *)
(*       delete_one     delete_message before delete_one                   *)
(*       dec            delete_message before the $inc of message_count    *)
(*       done           answered                                           *)
(***************************************************************************)
TicketOps == {"get_ticket", "update_ticket", "send_message"}

\* ticket ids a request can name: the stored tickets and one id that is not stored
TicketIds == 1..3

IdleReq ==
    [op |-> "none", pc |-> "idle", user |-> None, role |-> None, ticket |-> 0,
     msg |-> 0]

\* an answered request: the handler's locals are gone
DoneReq == [IdleReq EXCEPT !.pc = "done"]

NoResponse ==
    [req |-> 0, op |-> "none", user |-> None, role |-> None, ticket |-> 0,
     msg |-> 0, notification |-> 0, status |-> 0, body |-> {}, count |-> 0]

\* the handler of request r answers
Respond(r, status, body) ==
    /\ reqs' = [reqs EXCEPT ![r] = DoneReq]
    /\ http_resp' = [req |-> r, op |-> reqs[r].op, user |-> reqs[r].user,
                     role |-> reqs[r].role, ticket |-> reqs[r].ticket,
                     msg |-> reqs[r].msg, notification |-> 0,
                     status |-> status, body |-> body, count |-> 0]

\* check_ticket_permissions answering True for every stored ticket
check_ticket_permissions_open(ticket_id, user_id, role) ==
    ticket_id \in DOMAIN tickets

check_ticket_permissions(ticket_id, user_id, role) ==
    IF ticket_id \notin DOMAIN tickets THEN FALSE
    ELSE IF role \in {"admin", "agent"} THEN TRUE
    ELSE IF role = "customer" THEN tickets[ticket_id].created_by = user_id
    ELSE FALSE

\* where a handler starts after its dependencies
FirstPc(op) ==
    IF op = "get_tickets" THEN "list"
    ELSE IF op = "delete_message" THEN "find"
    ELSE "check"

\* where a handler goes when check_ticket_permissions returned True
AfterCheck(op, pc) ==
    IF pc = "check_again" \/ op = "get_ticket" THEN "read"
    ELSE IF op = "update_ticket" THEN "find_original"
    ELSE "insert"

\* a request arrives: get_current_user reads the user (401 when it is not
\* stored) and sets last_login, get_current_active_user answers 403 to a user
\* whose status is not active
Begin(r, op, u, t, m) ==
    /\ reqs[r].pc = "idle"
    /\ \A q \in ReqIds : q < r => reqs[q].pc # "idle"
    /\ IF u \notin DOMAIN users
         THEN /\ reqs' = [reqs EXCEPT ![r] = DoneReq]
              /\ http_resp' = [NoResponse EXCEPT !.req = r, !.op = op, !.user = u,
                                                 !.status = 401]
              /\ UNCHANGED users
         ELSE /\ users' = [users EXCEPT ![u].last_login = "now"]
              /\ IF users[u].status # "active"
                   THEN /\ reqs' = [reqs EXCEPT ![r] = DoneReq]
                        /\ http_resp' = [NoResponse EXCEPT !.req = r, !.op = op,
                                                           !.user = u, !.status = 403]
                   ELSE /\ reqs' = [reqs EXCEPT ![r] =
                               [op |-> op, pc |-> FirstPc(op), user |-> u,
                                role |-> users[u].role, ticket |-> t, msg |-> m]]
                        /\ UNCHANGED http_resp
    /\ UNCHANGED <<tickets, notifications, wsVars, paging, call, delete_log, messages, reg>>

\* get_tickets: a customer's query is filtered by created_by
GetTickets(r) ==
    /\ reqs[r].pc = "list"
    /\ Respond(r, 200, {t \in DOMAIN tickets :
                          reqs[r].role = "customer" =>
                              tickets[t].created_by = reqs[r].user})
    /\ UNCHANGED <<users, tickets, notifications, wsVars, paging, call, delete_log, messages, reg>>

\* the permission check of get_ticket, update_ticket and send_message: 403
\* when check_ticket_permissions returns False
Check(r) ==
    /\ reqs[r].pc \in {"check", "check_again"}
    /\ IF check_ticket_permissions(reqs[r].ticket, reqs[r].user, reqs[r].role)
         THEN /\ reqs' = [reqs EXCEPT ![r].pc = AfterCheck(reqs[r].op, reqs[r].pc)]
              /\ UNCHANGED http_resp
         ELSE Respond(r, 403, {})
    /\ UNCHANGED <<users, tickets, notifications, wsVars, paging, call, delete_log, messages, reg>>

\* get_ticket after the check: the aggregate and the response
GetTicket(r) ==
    /\ reqs[r].pc = "read"
    /\ IF reqs[r].ticket \in DOMAIN tickets
         THEN Respond(r, 200, {reqs[r].ticket})
         ELSE Respond(r, 404, {})
    /\ UNCHANGED <<users, tickets, notifications, wsVars, paging, call, delete_log, messages, reg>>

\* update_ticket after the check: find_one of the original ticket
UpdateFindOriginal(r) ==
    /\ reqs[r].pc = "find_original"
    /\ IF reqs[r].ticket \in DOMAIN tickets
         THEN /\ reqs' = [reqs EXCEPT ![r].pc = "update_one"]
              /\ UNCHANGED http_resp
         ELSE Respond(r, 404, {})
    /\ UNCHANGED <<users, tickets, notifications, wsVars, paging, call, delete_log, messages, reg>>

\* update_ticket with TicketUpdate(priority="high"): update_one, no status
\* change and so no notification, then the closing get_ticket call
UpdateOne(r) ==
    /\ reqs[r].pc = "update_one"
    /\ IF reqs[r].ticket \in DOMAIN tickets
         THEN /\ tickets' = [tickets EXCEPT ![reqs[r].ticket].priority = "high"]
              /\ reqs' = [reqs EXCEPT ![r].pc = "check_again"]
              /\ UNCHANGED http_resp
         ELSE /\ Respond(r, 404, {})
              /\ UNCHANGED tickets
    /\ UNCHANGED <<users, notifications, wsVars, paging, call, delete_log, messages, reg>>

\* the message document send_message inserts; request r's insert_one gives it
\* the id r
NewMessageDoc(id, ticket_id, sender_id) ==
    [id |-> id, ticket_id |-> ticket_id, sender_id |-> sender_id]

\* send_message after the check: insert_one
SendInsert(r) ==
    /\ reqs[r].pc = "insert"
    /\ messages' = messages \cup {NewMessageDoc(r, reqs[r].ticket, reqs[r].user)}
    /\ reqs' = [reqs EXCEPT ![r].pc = "inc", ![r].msg = r]
    /\ UNCHANGED <<users, tickets, notifications, wsVars, paging, call, delete_log, reg, http_resp>>

\* update_one({"_id": ticket_id}, {"$inc": {"message_count": n}}): a ticket
\* that is not stored matches nothing
inc_message_count(coll, ticket_id, n) ==
    IF ticket_id \in DOMAIN coll
      THEN [coll EXCEPT ![ticket_id].message_count = @ + n]
      ELSE coll

\* send_message: the $inc of message_count, then find_one of the new message
\* and the response (building it from a message that is gone raises: 500)
SendInc(r) ==
    /\ reqs[r].pc = "inc"
    /\ tickets' = inc_message_count(tickets, reqs[r].ticket, 1)
    /\ IF \E m \in messages : m.id = reqs[r].msg
         THEN Respond(r, 201, {reqs[r].msg})
         ELSE Respond(r, 500, {})
    /\ UNCHANGED <<users, notifications, wsVars, paging, call, delete_log, messages, reg>>

\* delete_message: find_one of the message (404), the sender test (403)
DeleteFind(r) ==
    /\ reqs[r].pc = "find"
    /\ LET found == {m \in messages : m.id = reqs[r].msg} IN
       IF found = {} THEN Respond(r, 404, {})
       ELSE \E message \in found :
              IF message.sender_id # reqs[r].user THEN Respond(r, 403, {})
              ELSE /\ reqs' = [reqs EXCEPT ![r].pc = "delete_one",
                                           ![r].ticket = message.ticket_id]
                   /\ UNCHANGED http_resp
    /\ UNCHANGED <<users, tickets, notifications, wsVars, paging, call, delete_log, messages, reg>>

\* delete_message: delete_one, whose deleted_count the handler does not read
DeleteOne(r) ==
    /\ reqs[r].pc = "delete_one"
    /\ messages' = {m \in messages : m.id # reqs[r].msg}
    /\ delete_log' = delete_log \cup
          {[req |-> r, ticket |-> reqs[r].ticket,
            deleted_count |-> Cardinality({m \in messages : m.id = reqs[r].msg})]}
    /\ reqs' = [reqs EXCEPT ![r].pc = "dec"]
    /\ UNCHANGED <<users, tickets, notifications, wsVars, paging, call, reg, http_resp>>

\* a delete_message that decrements only for a document its delete_one removed
DeleteDec_if_deleted(r) ==
    /\ reqs[r].pc = "dec"
    /\ tickets' = IF \E l \in delete_log : l.req = r /\ l.deleted_count = 1
                    THEN inc_message_count(tickets, reqs[r].ticket, -1)
                    ELSE tickets
    /\ Respond(r, 204, {})
    /\ UNCHANGED <<users, notifications, wsVars, paging, call, delete_log, messages, reg>>

\* delete_message: the $inc of message_count by -1, then 204
DeleteDec(r) ==
    /\ reqs[r].pc = "dec"
    /\ tickets' = inc_message_count(tickets, reqs[r].ticket, -1)
    /\ Respond(r, 204, {})
    /\ UNCHANGED <<users, notifications, wsVars, paging, call, delete_log, messages, reg>>

(***************************************************************************)
(* Specification of the websocket registry and the notification service    *)
(***************************************************************************)
\* the websocket layer after start-up, no REST request in progress
BaseInit ==
    /\ manager = NewManager
    /\ paging = IdlePaging
    /\ call = IdleCall
    /\ sockets = [s \in SocketIds |-> IdleSocket]
    /\ sent = EmptyBag
    /\ close_log = {}
    /\ svc_log = {}
    /\ task = IdleTask
    /\ nnt_done = {}
    /\ stats_resp = NoStats
    /\ reg = [r \in RegIds |-> IdleReg]
    /\ reqs = [r \in ReqIds |-> IdleReq]
    /\ delete_log = {}
    /\ http_resp = NoResponse

Init ==
    /\ users = InitUsers
    /\ tickets = EmptyDict
    /\ notifications = {}
    /\ messages = {}
    /\ BaseInit

\* the handlers of the connections that have been opened
HandlerSteps ==
    \/ \E s \in SocketIds : RegisterConnection(s)
    \/ \E s \in SocketIds : RegisterReplace(s)
    \/ \E s \in SocketIds : HandlerDisconnect(s)
    \/ \E s \in SocketIds : HandlerFinally(s)
    \/ \E s \in SocketIds : PeerDrop(s)

HandlerNext ==
    \/ \E s \in SocketIds, tok \in Tokens, peer \in {"open", "gone"} :
          Connect(s, tok, peer)
    \/ HandlerSteps

ServiceNext ==
    \/ \E u \in UserIds : CreateNotification(u)
    \/ CabDeliver
    \/ \E u \in UserIds : CreateTicket(u)
    \/ NntResolve
    \/ \E u \in UserIds : CtnInsert(u)
    \/ CtnUpdateBegin
    \/ \E u \in UserIds : UpdSend(u)
    \/ BcastBegin
    \/ \E u \in UserIds : BcastSend(u)
    \/ BcastEnd

\* the notification service beside the websocket handlers
Next == HandlerNext \/ ServiceNext

Spec == Init /\ [][Next]_vars

\* create_and_broadcast_notification beside the websocket handlers
NotifyNext ==
    \/ HandlerNext
    \/ \E u \in UserIds : CreateNotification(u)
    \/ CabDeliver

SpecNotify == Init /\ [][NotifyNext]_vars

\* the registry under the websocket handlers alone
SpecReg == Init /\ [][HandlerNext]_vars

\* the registry together with GET /ws/stats
StatsNext == HandlerNext \/ (\E c \in Callers : GetWebsocketStats(c))

SpecStats == Init /\ [][StatsNext]_vars

(***************************************************************************)
(* Specification of the receive loop: the handlers with the messages their *)
(* clients send.  A handler is a coroutine of the asyncio event loop: a     *)
(* step of it that stays possible is eventually run (weak fairness), while *)
(* nothing makes a client connect, send or leave.                          *)
(***************************************************************************)
ClientMessages ==
    \/ \E s \in SocketIds, peer \in {"open", "gone"} : ClientPing(s, peer)
    \/ \E s \in SocketIds : ClientMalformed(s)
    \/ \E s \in SocketIds : ClientMarkRead(s, 1)

\* the clients are a customer and an agent, with their valid tokens
LoopTokens == {"u1", "u2"}

\* two connections: one user's connection and the one that replaces it, or
\* the connections of two users
LoopSockets == {1, 2}

LoopNext ==
    \/ \E s \in LoopSockets, tok \in LoopTokens : Connect(s, tok, "open")
    \/ HandlerSteps
    \/ ClientMessages

SpecLoop == Init /\ [][LoopNext]_vars

\* the steps of the handler of connection s the event loop runs by itself
HandlerRuns(s) ==
    \/ RegisterConnection(s)
    \/ RegisterReplace(s)
    \/ HandlerDisconnect(s)
    \/ HandlerFinally(s)

FairLoop == SpecLoop /\ \A s \in SocketIds : WF_vars(HandlerRuns(s))

(***************************************************************************)
(* Specification of the broadcasts: the admin u3 is connected from the     *)
(* start on a connection of its own, which stays open; a customer and an   *)
(* agent connect, reconnect and leave while the manager's broadcasts run   *)
(***************************************************************************)
\* the connection of u3, registered before the behaviour starts
StaffSocket == 0

InitBcast ==
    /\ users = InitUsers
    /\ tickets = EmptyDict
    /\ notifications = {}
    /\ messages = {}
    /\ manager = register_connection_store(NewManager, StaffSocket, "u3", "admin")
    /\ sockets = [s \in {StaffSocket} \cup SocketIds |->
                    IF s = StaffSocket
                      THEN [IdleSocket EXCEPT !.phase = "loop", !.token = "u3",
                                              !.role = "admin",
                                              !.client_state = "CONNECTED"]
                      ELSE IdleSocket]
    /\ sent = SetToBag({Envelope(StaffSocket, "connection_established", "u3")})
    /\ close_log = {}
    /\ svc_log = {}
    /\ task = IdleTask
    /\ nnt_done = {}
    /\ stats_resp = NoStats
    /\ reg = [r \in RegIds |-> IdleReg]
    /\ reqs = [r \in ReqIds |-> IdleReq]
    /\ delete_log = {}
    /\ http_resp = NoResponse
    /\ paging = IdlePaging
    /\ call = IdleCall

BcastNext ==
    \/ \E s \in LoopSockets, tok \in LoopTokens : Connect(s, tok, "open")
    \/ HandlerSteps
    \/ AlertBegin
    \/ \E u \in UserIds : BcastSend(u)
    \/ AllBegin
    \/ \E u \in UserIds : AllSend(u)
    \/ BcastEnd

SpecBcast == InitBcast /\ [][BcastNext]_vars

\* the broadcasts while the admin u3 changes the role of u2
RoleNext ==
    \/ BcastNext
    \/ \E role \in {"customer", "agent"} : UpdateUserRole("u3", "u2", role)

SpecRole == InitBcast /\ [][RoleNext]_vars

(***************************************************************************)
(* Specification of pagination: a list query with any count, page and      *)
(* per_page within the bounds                                              *)
(***************************************************************************)
InitPage ==
    /\ users = InitUsers
    /\ tickets = EmptyDict
    /\ notifications = {}
    /\ messages = {}
    /\ manager = NewManager
    /\ sockets = [s \in SocketIds |-> IdleSocket]
    /\ sent = EmptyBag
    /\ close_log = {}
    /\ svc_log = {}
    /\ task = IdleTask
    /\ nnt_done = {}
    /\ stats_resp = NoStats
    /\ reg = [r \in RegIds |-> IdleReg]
    /\ reqs = [r \in ReqIds |-> IdleReq]
    /\ delete_log = {}
    /\ http_resp = NoResponse
    /\ call = IdleCall
    /\ \E total \in 0..MaxTotal, page \in 1..MaxPage, per_page \in 1..MaxPerPage :
          paging = PagingQuery(total, page, per_page)

PageNext == Paginate

SpecPage == InitPage /\ [][PageNext]_vars

(***************************************************************************)
(* Specification of the ticket-writing requests, any of whose notification *)
(* calls may raise                                                         *)
(***************************************************************************)
\* three of the values of models/ticket.py TicketStatus
TicketStatuses == {"open", "in_progress", "resolved"}

CallNext ==
    \/ \E h \in NotifyingHandlers, u \in UserIds, t \in 1..MaxTickets,
          st \in TicketStatuses : TicketWrite(h, u, t, st)
    \/ \E raises \in BOOLEAN : NotifyCall(raises)
    \/ CallReturns

SpecCall == Init /\ [][CallNext]_vars

(***************************************************************************)
(* Specification of websocket authentication: clients present every kind   *)
(* of token while an admin suspends and reactivates users                  *)
(***************************************************************************)
WsAuthNext ==
    \/ \E s \in SocketIds, tok \in AllTokens, peer \in {"open", "gone"} :
          Connect(s, tok, peer)
    \/ HandlerSteps
    \/ \E a \in UserIds, u \in UserIds, st \in {"active", "suspended"} :
          UpdateUserStatus(a, u, st)

SpecWsAuth == Init /\ [][WsAuthNext]_vars

(***************************************************************************)
(* Specification of registration: an empty users collection with its       *)
(* unique indexes, and concurrent POST /api/auth/register requests         *)
(***************************************************************************)
InitAuth ==
    /\ users = EmptyDict
    /\ tickets = EmptyDict
    /\ notifications = {}
    /\ messages = {}
    /\ BaseInit

AuthNext ==
    \/ \E r \in RegIds, e \in RawEmails, n \in RawUsernames, role \in Roles :
          RegisterFind(r, e, n, role)
    \/ \E r \in RegIds : RegisterInsert(r)

SpecAuth == InitAuth /\ [][AuthNext]_vars

(***************************************************************************)
(* Specifications of the ticket and chat requests.  The database holds two *)
(* customers, an agent and an admin; each customer has created one ticket  *)
(* while nobody was connected (which left each a ticket_created            *)
(* notification), and u1 has sent one message on ticket 1.                 *)
(***************************************************************************)
TicketUsers ==
    [u \in {"u1", "u2", "u3", "u4"} |->
        NewUserDoc(u, u, IF u \in {"u1", "u4"} THEN "customer"
                         ELSE IF u = "u2" THEN "agent" ELSE "admin")]

InitTickets ==
    /\ users = TicketUsers
    /\ tickets = (1 :> [NewTicketDoc("u1") EXCEPT !.message_count = 1]
                  @@ 2 :> NewTicketDoc("u4"))
    /\ notifications = {NewNotificationDoc(1, "u1", "ticket_created", 1),
                        NewNotificationDoc(2, "u4", "ticket_created", 2)}
    /\ messages = {NewMessageDoc(0, 1, "u1")}
    /\ BaseInit

\* message ids a request can name: the stored message and those of the
\* behaviour's send_message requests
MessageIds == 0..MaxReqs

BeginGetTickets(r, u) == Begin(r, "get_tickets", u, 0, 0)

BeginTicketOp(r, op, u, t) == Begin(r, op, u, t, 0)

BeginSendMessage(r, u, t) == Begin(r, "send_message", u, t, 0)

BeginDeleteMessage(r, u, m) == Begin(r, "delete_message", u, 0, m)

\* access to tickets: list, read, update, post a message
AccessNext ==
    \/ \E r \in ReqIds, u \in DOMAIN users : BeginGetTickets(r, u)
    \/ \E r \in ReqIds, op \in TicketOps, u \in DOMAIN users, t \in TicketIds :
          BeginTicketOp(r, op, u, t)
    \/ \E r \in ReqIds :
          \/ GetTickets(r)
          \/ Check(r)
          \/ GetTicket(r)
          \/ UpdateFindOriginal(r)
          \/ UpdateOne(r)
          \/ SendInsert(r)
          \/ SendInc(r)

SpecAccess == InitTickets /\ [][AccessNext]_vars

\* the message counter: send_message and delete_message
ChatNext ==
    \/ \E r \in ReqIds, u \in DOMAIN users, t \in TicketIds :
          BeginSendMessage(r, u, t)
    \/ \E r \in ReqIds, u \in DOMAIN users, m \in MessageIds :
          BeginDeleteMessage(r, u, m)
    \/ \E r \in ReqIds :
          \/ Check(r)
          \/ SendInsert(r)
          \/ SendInc(r)
          \/ DeleteFind(r)
          \/ DeleteOne(r)
          \/ DeleteDec(r)

SpecChat == InitTickets /\ [][ChatNext]_vars

(***************************************************************************)
(* /api/notifications: a user's own notifications                          *)
(* Each request is one step: the dependency get_current_active_user, then  *)
(* the single database call of the handler, then the answer.               *)
(***************************************************************************)
\* get_current_active_user lets the request of caller through: a stored user
\* whose status is active
get_current_active_user(caller) ==
    /\ caller \in DOMAIN users
    /\ users[caller].status = "active"

\* get_agent_or_admin_user lets the request of caller through
get_agent_or_admin_user(caller) ==
    /\ get_current_active_user(caller)
    /\ users[caller].role \in {"agent", "admin"}

\* a query without the "user_id" condition
user_filter_anyone(n, user_id) == TRUE

\* the condition "user_id": ObjectId(current_user.id) of the queries
user_filter(n, user_id) == n.user_id = user_id

\* the "$set" of is_read = True and read_at = utcnow()
SetRead(n) == [n EXCEPT !.is_read = TRUE, !.read_at = "now"]

\* the answer to a notification request of caller
NotificationResponse(op, caller, nid, status, body, count) ==
    [NoResponse EXCEPT !.op = op, !.user = caller, !.role = users[caller].role,
                       !.notification = nid, !.status = status, !.body = body,
                       !.count = count]

\* what a notification request leaves alone besides users, notifications and
\* the answer
NotificationRequestFrame ==
    UNCHANGED <<tickets, wsVars, messages, reg, reqs, delete_log, paging, call>>

\* GET /api/notifications/{notification_id}
GetNotification(caller, nid) ==
    /\ get_current_active_user(caller)
    /\ LET found == {n \in notifications : n.id = nid /\ user_filter(n, caller)}
       IN  http_resp' =
              IF found = {}
                THEN NotificationResponse("get_notification", caller, nid,
                                          404, {}, 0)
                ELSE NotificationResponse("get_notification", caller, nid,
                                          200, found, 0)
    /\ users' = [users EXCEPT ![caller].last_login = "now"]
    /\ UNCHANGED notifications
    /\ NotificationRequestFrame

\* PUT /api/notifications/{notification_id}/read
MarkNotificationRead(caller, nid) ==
    /\ get_current_active_user(caller)
    /\ LET matched == {n \in notifications :
                          n.id = nid /\ user_filter(n, caller)}
       IN  /\ notifications' = {IF n \in matched THEN SetRead(n) ELSE n :
                                   n \in notifications}
           /\ http_resp' =
                 NotificationResponse("mark_notification_read", caller, nid,
                                      IF matched = {} THEN 404 ELSE 200, {}, 0)
    /\ users' = [users EXCEPT ![caller].last_login = "now"]
    /\ NotificationRequestFrame

\* PUT /api/notifications/admin/{notification_id}/read by an agent or admin:
\* the query names the notification only
MarkNotificationReadAdmin(caller, nid) ==
    /\ get_agent_or_admin_user(caller)
    /\ LET matched == {n \in notifications : n.id = nid}
       IN  /\ notifications' = {IF n \in matched THEN SetRead(n) ELSE n :
                                   n \in notifications}
           /\ http_resp' =
                 NotificationResponse("mark_notification_read_admin", caller,
                                      nid, IF matched = {} THEN 404 ELSE 200,
                                      {}, 0)
    /\ users' = [users EXCEPT ![caller].last_login = "now"]
    /\ NotificationRequestFrame

\* POST /api/notifications/mark-all-read
MarkAllNotificationsRead(caller) ==
    /\ get_current_active_user(caller)
    /\ LET matched == {n \in notifications :
                          user_filter(n, caller) /\ ~n.is_read}
       IN  /\ notifications' = {IF n \in matched THEN SetRead(n) ELSE n :
                                   n \in notifications}
           /\ http_resp' =
                 NotificationResponse("mark_all_notifications_read", caller, 0,
                                      200, {}, 0)
    /\ users' = [users EXCEPT ![caller].last_login = "now"]
    /\ NotificationRequestFrame

\* the "$set" of bulk_update_notifications: read_at is written only when
\* is_read is true
BulkSet(n, is_read) ==
    IF is_read THEN SetRead(n) ELSE [n EXCEPT !.is_read = FALSE]

\* POST /api/notifications/bulk-update with notification_ids and is_read; the
\* answer counts the documents the update modified
BulkUpdateNotifications(caller, notification_ids, is_read) ==
    /\ get_current_active_user(caller)
    /\ LET matched == {n \in notifications :
                          n.id \in notification_ids /\ user_filter(n, caller)}
           modified == {n \in matched : BulkSet(n, is_read) # n}
       IN  /\ notifications' = {IF n \in matched THEN BulkSet(n, is_read)
                                   ELSE n : n \in notifications}
           /\ http_resp' =
                 NotificationResponse("bulk_update_notifications", caller, 0,
                                      200, {}, Cardinality(modified))
    /\ users' = [users EXCEPT ![caller].last_login = "now"]
    /\ NotificationRequestFrame

\* DELETE /api/notifications/{notification_id}
DeleteNotification(caller, nid) ==
    /\ get_current_active_user(caller)
    /\ LET matched == {n \in notifications :
                          n.id = nid /\ user_filter(n, caller)}
       IN  /\ notifications' = notifications \ matched
           /\ http_resp' =
                 NotificationResponse("delete_notification", caller, nid,
                                      IF matched = {} THEN 404 ELSE 200, {}, 0)
    /\ users' = [users EXCEPT ![caller].last_login = "now"]
    /\ NotificationRequestFrame

\* the customer u1 and the agent u2 each have one stored notification and one
\* registered websocket connection whose handler awaits receive_text
InitNotifications ==
    /\ users = InitUsers
    /\ tickets = EmptyDict
    /\ notifications = {NewNotificationDoc(1, "u1", "system_alert", None),
                        NewNotificationDoc(2, "u2", "system_alert", None)}
    /\ messages = {}
    /\ manager = register_connection_store(
                    register_connection_store(NewManager, 1, "u1", "customer"),
                    2, "u2", "agent")
    /\ sockets = [s \in SocketIds |->
                    IF s \in LoopSockets
                      THEN [IdleSocket EXCEPT
                               !.phase = "loop",
                               !.token = IF s = 1 THEN "u1" ELSE "u2",
                               !.role = IF s = 1 THEN "customer" ELSE "agent",
                               !.client_state = "CONNECTED"]
                      ELSE IdleSocket]
    /\ sent = SetToBag({Envelope(1, "connection_established", "u1"),
                        Envelope(2, "connection_established", "u2")})
    /\ close_log = {}
    /\ svc_log = {}
    /\ task = IdleTask
    /\ nnt_done = {}
    /\ stats_resp = NoStats
    /\ reg = [r \in RegIds |-> IdleReg]
    /\ reqs = [r \in ReqIds |-> IdleReq]
    /\ delete_log = {}
    /\ http_resp = NoResponse
    /\ paging = IdlePaging
    /\ call = IdleCall

\* the ids a request may name: the stored ones and one no document has
NotificationIds == {1, 2, 3}

\* the requests of the customer u1 and the agent u2, over REST and over their
\* websocket connections
NotifAccessNext ==
    \/ \E u \in LoopTokens, nid \in NotificationIds : GetNotification(u, nid)
    \/ \E u \in LoopTokens, nid \in NotificationIds :
          MarkNotificationRead(u, nid)
    \/ \E u \in LoopTokens, nid \in NotificationIds :
          MarkNotificationReadAdmin(u, nid)
    \/ \E u \in LoopTokens : MarkAllNotificationsRead(u)
    \/ \E u \in LoopTokens, ids \in SUBSET NotificationIds, b \in BOOLEAN :
          BulkUpdateNotifications(u, ids, b)
    \/ \E u \in LoopTokens, nid \in NotificationIds : DeleteNotification(u, nid)
    \/ \E s \in LoopSockets, nid \in NotificationIds : ClientMarkRead(s, nid)

SpecNotifAccess == InitNotifications /\ [][NotifAccessNext]_vars

(***************************************************************************)
(* The assignee of a ticket                                                *)
(***************************************************************************)
\* DELETE /api/admin/users/{user_id} by an admin: the admin cannot delete its
\* own account; delete_one removes the user document and nothing else
DeleteUser(caller, user_id) ==
    /\ get_admin_user(caller)
    /\ caller # user_id
    /\ user_id \in DOMAIN users
    /\ users' = DictDel([users EXCEPT ![caller].last_login = "now"], user_id)
    /\ UNCHANGED <<tickets, notifications, wsVars, httpVars>>

\* an id in the request body that no stored user has
UnknownUser == "u9"

\* PUT /api/tickets/{ticket_id} with TicketUpdate(assigned_to = assigned_to):
\* after check_ticket_permissions the "$set" writes the value of the body as it
\* is; the status does not change, so no notification is sent
UpdateTicketAssignedTo(caller, ticket_id, assigned_to) ==
    /\ get_current_active_user(caller)
    /\ check_ticket_permissions(ticket_id, caller, users[caller].role)
    /\ tickets' = [tickets EXCEPT ![ticket_id].assigned_to = assigned_to]
    /\ users' = [users EXCEPT ![caller].last_login = "now"]
    /\ http_resp' = [NoResponse EXCEPT !.op = "update_ticket", !.user = caller,
                                       !.role = users[caller].role,
                                       !.ticket = ticket_id, !.status = 200,
                                       !.body = {ticket_id}]
    /\ UNCHANGED <<notifications, wsVars, messages, reg, reqs, delete_log,
                   paging, call>>

\* the customer u1 creates tickets, u1 and the agent u2 update them, staff is
\* assigned to them, while the admin u3 changes the role of u2 and deletes u2
AssignNext ==
    \/ \E t \in 1..MaxTickets : TicketWrite("create_ticket", "u1", t, "open")
    \/ \E u \in UserIds, t \in 1..MaxTickets :
          TicketWrite("assign_ticket", u, t, "in_progress")
    \/ \E raises \in BOOLEAN : NotifyCall(raises)
    \/ CallReturns
    \/ \E caller \in LoopTokens, t \in 1..MaxTickets,
          a \in LoopTokens \cup {UnknownUser} :
          UpdateTicketAssignedTo(caller, t, a)
    \/ \E role \in {"customer", "agent"} : UpdateUserRole("u3", "u2", role)
    \/ DeleteUser("u3", "u2")

SpecAssign == Init /\ [][AssignNext]_vars

(***************************************************************************)
(* Properties of the connection registry                                   *)
(***************************************************************************)

\* the handler of connection s returns in this step
HandlerEnds(s) == sockets[s].phase # "done" /\ sockets'[s].phase = "done"

\* C1: a user's newer connection replaces the older one and stays registered
\* until its own handler ends: the end of the handler of one connection never
\* removes the registration of another connection.
C1_CleanupKeepsNewerConnection ==
    [][\A s \in SocketIds : HandlerEnds(s) =>
          \A u \in DOMAIN manager.active_connections :
              manager.active_connections[u] # s =>
                  /\ u \in DOMAIN manager'.active_connections
                  /\ manager'.active_connections[u] = manager.active_connections[u]]_vars

\* register_connection for s completes in this step
RegistrationCompletes(s) ==
    /\ sockets[s].phase \in {"authed", "replacing"}
    /\ sockets'[s].phase \in {"loop", "failed"}

\* register_connection for s found a connection of the user registered
HasOld(s) ==
    \/ sockets[s].phase = "replacing"
    \/ sockets[s].token \in DOMAIN manager.active_connections

\* ... and that connection
OldOf(s) ==
    IF sockets[s].phase = "replacing" THEN sockets[s].old
    ELSE manager.active_connections[sockets[s].token]

C8_StatsAdminOnly ==
    stats_resp.status = 200 =>
        /\ stats_resp.caller \in DOMAIN users
        /\ users[stats_resp.caller].role = "admin"

(***************************************************************************)
(* Properties of create_and_broadcast_notification                         *)
(***************************************************************************)

\* create_and_broadcast_notification returns in this step
CabReturns == task.pc = "cab_deliver" /\ task'.pc # "cab_deliver"

\* the stored notifications with the given id
StoredWithId(nid) == {d \in notifications : d.id = nid}

\* the "notification" envelopes sent about the given notification
PushedEnvelopes(nid) ==
    {e \in BagToSet(sent) : e.type = "notification" /\ e.ref = ToString(nid)}

Returned == {l \in svc_log : l.line = 78}

\* C3: a call of create_and_broadcast_notification that returns has inserted
\* exactly one notification for user_id, unread (is_read false, read_at null),
\* whether or not the user is connected; the document is stored before the
\* step that tests the connection and sends, and every stored document
\* belongs to a call that returned or has reached that step.
C3_NotificationStoredOnce ==
    [][/\ CabReturns =>
            /\ Cardinality(StoredWithId(task.nid)) = 1
            /\ \A d \in StoredWithId(task.nid) :
                  d.user_id = task.user /\ d.is_read = FALSE /\ d.read_at = None
            /\ notifications' = notifications
            /\ LogLine(78, task.nid, task.user) \in svc_log'
       /\ Cardinality(notifications') =
             Cardinality({l \in svc_log' : l.line = 78})
               + (IF task'.pc = "cab_deliver" THEN 1 ELSE 0)]_vars

\* C3 witness: a call for a connected user has returned and its notification
\* is stored unread
C3_Witness ==
    \E l \in Returned :
        /\ LogLine(74, l.nid, l.user) \in svc_log
        /\ \E d \in StoredWithId(l.nid) : d.user_id = l.user /\ ~d.is_read

\* C4: when create_and_broadcast_notification runs for a user whose registered
\* connection is CONNECTED (and, here, whose socket is healthy), exactly one
\* "notification" envelope is sent on that connection and the user is still
\* registered afterwards.
C4_ConnectedUserIsSentEnvelope ==
    [][(/\ CabReturns
        /\ is_user_connected(manager, task.user)
        /\ sockets[manager.active_connections[task.user]].client_state = "CONNECTED"
        /\ ~SocketRaises(manager.active_connections[task.user]))
       => /\ sent' = sent (+) SetToBag({Envelope(manager.active_connections[task.user],
                                                 "notification", task.nid)})
          /\ is_user_connected(manager', task.user)]_vars

\* C5: a notification created while its user had no registered connection
\* (the call logged "not connected, notification saved to database only") is
\* never sent as a "notification" envelope, whatever happens later.
C5_NoLaterPush ==
    \A l \in svc_log : l.line = 76 => PushedEnvelopes(l.nid) = {}

\* C5 witness: after such a call the user has connected and been registered,
\* and the notification is still stored unread
C5_Witness ==
    \E l \in svc_log :
        /\ l.line = 76
        /\ is_user_connected(manager, l.user)
        /\ sockets[manager.active_connections[l.user]].phase = "loop"
        /\ \E d \in StoredWithId(l.nid) : ~d.is_read

(***************************************************************************)
(* Properties of notify_new_ticket                                         *)
(***************************************************************************)

\* the users with a stored ticket_created notification about the ticket
NotifiedOfTicket(t) ==
    {d.user_id : d \in {n \in notifications :
                          n.notification_type = "ticket_created" /\ n.ticket_id = t}}

\* C6: once notify_new_ticket(t) has returned, the users with a stored
\* ticket_created notification about t are exactly the stored users whose
\* role is admin or agent.
C6_StaffNotifiedOfNewTicket ==
    \A t \in nnt_done :
        NotifiedOfTicket(t) =
            {u \in DOMAIN users : users[u].role \in {"admin", "agent"}}

(***************************************************************************)
(* Properties of the ticket permissions                                    *)
(***************************************************************************)

\* request r is a customer's request on a ticket the customer did not create
Foreign(r) ==
    /\ reqs[r].role = "customer"
    /\ reqs[r].op \in TicketOps
    /\ reqs[r].ticket \in DOMAIN tickets =>
          tickets[reqs[r].ticket].created_by # reqs[r].user

\* request r is answered in this step
Answered(r) == reqs[r].pc \notin {"idle", "done"} /\ reqs'[r].pc = "done"

\* C7: a customer's request to read, update or post a message on a ticket
\* they did not create is answered 403 and changes no
\* ticket, message or notification; on a ticket they created it succeeds;
\* get_tickets returns a customer exactly the tickets they created; an agent
\* or admin succeeds on every stored ticket.
C7_TicketPermissions ==
    [][\A r \in ReqIds :
         /\ (Foreign(r) /\ reqs'[r] # reqs[r]) =>
               /\ Answered(r)
               /\ http_resp'.req = r /\ http_resp'.status = 403
               /\ tickets' = tickets
               /\ messages' = messages
               /\ notifications' = notifications
         /\ (Answered(r) /\ reqs[r].op = "get_tickets"
                         /\ reqs[r].role = "customer") =>
               http_resp'.body =
                  {t \in DOMAIN tickets : tickets[t].created_by = reqs[r].user}
         /\ (Answered(r) /\ reqs[r].op = "get_tickets"
                         /\ reqs[r].role \in {"agent", "admin"}) =>
               http_resp'.body = DOMAIN tickets
         /\ (Answered(r) /\ reqs[r].op \in TicketOps
                         /\ reqs[r].ticket \in DOMAIN tickets /\ ~Foreign(r)) =>
               http_resp'.status \in {200, 201}]_vars

\* C7 witness: a customer's send_message on another customer's ticket was
\* answered 403 and no message was stored
C7_Witness ==
    /\ http_resp.status = 403
    /\ http_resp.op = "send_message"
    /\ http_resp.role = "customer"
    /\ http_resp.ticket \in DOMAIN tickets
    /\ tickets[http_resp.ticket].created_by # http_resp.user
    /\ messages = {NewMessageDoc(0, 1, "u1")}

(***************************************************************************)
(* Properties of registration                                              *)
(***************************************************************************)

\* C9: no two stored users share an e-mail address or a username, whatever
\* the interleaving of the register_user requests; a request that found its
\* e-mail or username stored is answered 400 and stores no user; the stored
\* users are those of the requests answered 201.
C9_UniqueEmailAndUsername ==
    /\ \A a, b \in DOMAIN users :
          a # b => /\ users[a].email # users[b].email
                   /\ users[a].username # users[b].username
    /\ \A r \in RegIds :
          /\ reg[r].existed => /\ reg[r].status = 400
                               /\ NewUserId(r) \notin DOMAIN users
          /\ reg[r].status = 201 <=> NewUserId(r) \in DOMAIN users

\* C9 witness: a user is stored and a later request with the same username in
\* another case, or the same e-mail address, was answered 400
C9_Witness ==
    \E r \in RegIds :
        /\ reg[r].status = 400
        /\ \E k \in DOMAIN users : \/ users[k].email = reg[r].email
                                   \/ users[k].username = reg[r].username

(***************************************************************************)
(* Properties of the message counter                                       *)
(***************************************************************************)
StoredMessages(t) == {m \in messages : m.ticket_id = t}

\* requests on ticket t between two of their writes
Pending(t, pc) == {r \in ReqIds : reqs[r].pc = pc /\ reqs[r].ticket = t}

\* delete_one calls on messages of ticket t that deleted nothing
RedundantDeletes(t) == {l \in delete_log : l.ticket = t /\ l.deleted_count = 0}

Quiescent == \A r \in ReqIds : reqs[r].pc \in {"idle", "done"}

\* C10: message_count and the stored messages are written by separate
\* updates: message_count is the number of stored messages, corrected by the
\* updates still pending, minus one for every delete_one that deleted nothing
\* (a delete_message that passed its existence check after another one had).
\* With no request in progress the two therefore differ exactly when some
\* delete_message was redundant.
C10_MessageCountAccounting ==
    \A t \in DOMAIN tickets :
        tickets[t].message_count =
            Cardinality(StoredMessages(t))
              + Cardinality(Pending(t, "dec"))
              - Cardinality(Pending(t, "inc"))
              - Cardinality(RedundantDeletes(t))

\* C10 witness: two delete_message requests for the same message have both
\* been answered, and message_count differs from the number of stored messages
C10_Witness ==
    /\ Quiescent
    /\ \E t \in DOMAIN tickets :
          /\ RedundantDeletes(t) # {}
          /\ tickets[t].message_count # Cardinality(StoredMessages(t))

(***************************************************************************)
(* Properties of websocket authentication                                  *)
(***************************************************************************)

\* the handler of connection s rejects its token in this step
AuthFails(s) == sockets[s].phase = "idle" /\ sockets'[s].phase = "done"

\* the handler of connection s accepts its token in this step
AuthSucceeds(s) == sockets[s].phase = "idle" /\ sockets'[s].phase = "authed"

\* connection s is put into the registry in this step
Registered(s) ==
    \E u \in DOMAIN manager'.active_connections :
        /\ manager'.active_connections[u] = s
        /\ u \in DOMAIN manager.active_connections =>
              manager.active_connections[u] # s

\* C12: a connection is put into the registry only by its own handler after
\* its token was validated to a stored user whose status was active; when the
\* validation fails the registry is left unchanged and, the client still
\* being there, exactly one "error" envelope is sent on the connection and it
\* is closed with code 1008.
C12_RegisteredOnlyAfterAuth ==
    [][\A s \in SocketIds :
         /\ AuthSucceeds(s) =>
               /\ sockets'[s].token \in DOMAIN users
               /\ users[sockets'[s].token].status = "active"
               /\ manager' = manager
         /\ Registered(s) =>
               /\ sockets[s].phase \in {"authed", "replacing"}
               /\ manager'.active_connections[sockets[s].token] = s
         /\ AuthFails(s) =>
               /\ manager' = manager
               /\ IF sockets'[s].peer = "open"
                    THEN /\ \E e \in BagToSet(sent') :
                               /\ e.sock = s /\ e.type = "error"
                               /\ sent' = sent (+) SetToBag({e})
                         /\ close_log' = close_log \cup
                               {[by |-> s, sock |-> s, code |-> 1008,
                                 raised |-> FALSE]}
                    ELSE sent' = sent /\ close_log' = close_log]_vars

\* C12 witness: the token of a suspended user was rejected on a connection
\* while another connection is registered
C12_Witness ==
    \E s \in SocketIds :
        /\ sockets[s].phase = "done"
        /\ sockets[s].token \in DOMAIN users
        /\ sockets[s].peer = "open"
        /\ \E e \in BagToSet(sent) : e.sock = s /\ e.type = "error"
        /\ manager.active_connections # EmptyDict

\* the code the error envelope of a rejected token should carry
ExpectedAuthCode(tok) ==
    IF tok \in {"malformed", "undecodable", "nosub"} THEN 401
    ELSE IF tok \notin DOMAIN users THEN 404
    ELSE 400

\* C14: the "error" envelope sent when authentication fails carries the code
\* of the cause: 401 for a malformed or undecodable token or one without sub,
\* 404 for an unknown user id, 400 for a user whose status is not active.
C14_AuthErrorCodeNamesCause ==
    [][\A s \in SocketIds :
         AuthFails(s) =>
            \A e \in BagToSet(sent') :
               (e.sock = s /\ e.type = "error") =>
                   e.ref = ToString(ExpectedAuthCode(sockets'[s].token))]_vars

(***************************************************************************)
(* Properties of pagination                                                *)
(***************************************************************************)

\* C11: for a count total >= 0, page >= 1 and per_page >= 1 the response has
\* pages = ceil(total / per_page) (the least n with n * per_page >= total),
\* skip = (page - 1) * per_page, has_prev = (page > 1), has_next =
\* (page < pages), and has_next is true exactly when page * per_page < total.
C11_Pagination ==
    paging.pc = "done" =>
        /\ paging.pages \in Nat
        /\ paging.pages * paging.per_page >= paging.total
        /\ \A n \in 0..MaxTotal + 1 :
              n * paging.per_page >= paging.total => paging.pages <= n
        /\ paging.skip = (paging.page - 1) * paging.per_page
        /\ paging.has_prev = (paging.page > 1)
        /\ paging.has_next = (paging.page < paging.pages)
        /\ paging.has_next <=> (paging.page * paging.per_page < paging.total)

\* C11 witness: a query whose last page is partly filled, answered for a page
\* after the first and before the last
C11_Witness ==
    /\ paging.pc = "done"
    /\ paging.total % paging.per_page # 0
    /\ paging.has_next
    /\ paging.has_prev

(***************************************************************************)
(* Properties of the notification calls of ticket-writing requests         *)
(***************************************************************************)

\* C13: notification work is best-effort: when a notification call awaited by
\* create_ticket, update_ticket, assign_ticket or create_ticket_for_user
\* after the ticket write has failed, the failure is only logged: the request
\* still answers with its success status, and the ticket write is kept.
C13_NotificationsBestEffort ==
    (call.pc = "done" /\ call.logged # {}) =>
        /\ call.status_code \in {200, 201}
        /\ call.ticket \in DOMAIN tickets
        /\ tickets[call.ticket] = call.written

(***************************************************************************)
(* Properties of the end of a handler                                      *)
(***************************************************************************)

\* user_id is in none of the three collections of the manager
Absent(m, user_id) ==
    /\ user_id \notin DOMAIN m.active_connections
    /\ user_id \notin m.admin_connections
    /\ user_id \notin DOMAIN m.user_roles

\* connection s is the registered connection of user_id
RegisteredAs(s, user_id) ==
    /\ user_id \in DOMAIN manager.active_connections
    /\ manager.active_connections[user_id] = s

\* the handler of connection s is bound to terminate: its client has left or
\* the server has closed it (receive_text raises), or a malformed message or
\* a failed send has taken it to its except block
Ending(s) == sockets[s].phase = "failed" \/ SocketRaises(s)

\* C15: when the handler of a registered connection terminates (client
\* disconnect, malformed client message, send error), manager.disconnect has
\* been called for its user: the user is then in none of active_connections,
\* admin_connections and user_roles; and a registered connection that has
\* ended leads to its user being absent from the three collections.
C15_HandlerEndDisconnects ==
    /\ [][\A s \in SocketIds, u \in UserIds :
            (RegisteredAs(s, u) /\ HandlerEnds(s)) => Absent(manager', u)]_vars
    /\ \A s \in SocketIds, u \in UserIds :
            (RegisteredAs(s, u) /\ Ending(s)) ~> Absent(manager, u)

\* C15 witness: the handler of a registered connection has returned after a
\* malformed client message (close code 1011 on a connection whose client was
\* still there) and its user is absent from the registry
C15_Witness ==
    \E s \in SocketIds :
        /\ sockets[s].phase = "done"
        /\ \E c \in close_log : c.sock = s /\ c.code = 1011 /\ ~c.raised
        /\ \E e \in BagToSet(sent) : e.sock = s /\ e.type = "connection_established"
        /\ \A u \in UserIds : Absent(manager, u)

(***************************************************************************)
(* Properties of send_personal_message                                     *)
(***************************************************************************)

\* what send_personal_message(message, u) has to do in a step, for the
\* confirmation envelope of mark_notification_read
PersonalMessageContract(u) ==
    IF u \notin DOMAIN manager.active_connections
      THEN sent' = sent /\ manager' = manager
      ELSE LET ws == manager.active_connections[u] IN
           IF sockets[ws].client_state # "CONNECTED" \/ SocketRaises(ws)
             THEN /\ Absent(manager', u)
                  /\ sent' = sent
                  /\ \A v \in UserIds \ {u} :
                        /\ Absent(manager', v) <=> Absent(manager, v)
                        /\ v \in DOMAIN manager.active_connections =>
                              manager'.active_connections[v] =
                                  manager.active_connections[v]
             ELSE /\ sent' = sent (+) SetToBag({Envelope(ws,
                                       "notification_read_confirmed", 1)})
                  /\ manager' = manager

\* C16: send_personal_message(message, u) never raises: its caller goes on.
\* With no connection registered for u it sends nothing and leaves the
\* registry unchanged; when the registered socket is not CONNECTED or the send
\* raises, u is removed from all three collections and nothing is sent;
\* otherwise the message is sent exactly once and the registry is unchanged.
C16_SendPersonalMessage ==
    [][\A s \in SocketIds :
          ClientMarkRead(s, 1) =>
              /\ PersonalMessageContract(sockets[s].token)
              /\ sockets'[s].phase = "loop"]_vars

\* C16 witness: a confirmation has been delivered on a registered connection,
\* and the user of another handler in its receive loop is not registered
C16_Witness ==
    /\ \E e \in BagToSet(sent) : e.type = "notification_read_confirmed"
    /\ \E s \in SocketIds :
          /\ sockets[s].phase = "loop"
          /\ sockets[s].token \notin DOMAIN manager.active_connections

(***************************************************************************)
(* Properties of the broadcasts                                            *)
(***************************************************************************)

\* C17: broadcast_to_admins (send_new_ticket_alert) sends only on connections
\* of users whose role recorded in user_roles is admin or agent: a user whose
\* latest registration was as customer never receives an admin broadcast.
C17_AdminBroadcastOnlyToStaff ==
    [][\A u \in UserIds :
          (BcastSend(u) /\ sent' # sent) =>
              /\ u \in DOMAIN manager.user_roles
              /\ manager.user_roles[u] \in {"admin", "agent"}]_vars

\* a step of the loop of a broadcast
LoopStep == task.pc = "bcast" /\ task'.pc = "bcast" /\ task' # task

\* the socket an iteration for u sends on
RecipientSocket(u) ==
    IF task.op = "all" THEN task.conns[u] ELSE manager.active_connections[u]

\* the iteration for u finds a socket it can send on
RecipientWorks(u) ==
    /\ task.op = "all" \/ u \in DOMAIN manager.active_connections
    /\ ~SocketRaises(RecipientSocket(u))
    /\ sockets[RecipientSocket(u)].client_state = "CONNECTED"

\* the step adds one envelope on the socket of u and records the delivery
DeliveredTo(u) ==
    /\ u \in task'.delivered
    /\ \E e \in BagToSet(sent') :
          e.sock = RecipientSocket(u) /\ sent' = sent (+) SetToBag({e})

\* C18: in broadcast_to_admins and broadcast_to_all a recipient whose send
\* fails or whose socket is not CONNECTED does not stop the delivery to the
\* others: the loop goes on, a later recipient with a working socket still
\* gets the envelope, and when the broadcast returns every user of the copy
\* has been handled; the failing users are removed from the registry after
\* the loop and not during it.
C18_BroadcastSurvivesFailures ==
    [][/\ LoopStep =>
            /\ manager' = manager
            /\ \E u \in task.todo :
                  /\ task'.todo = task.todo \ {u}
                  /\ RecipientWorks(u) => DeliveredTo(u)
       /\ (task.pc = "bcast" /\ task'.pc = "idle") =>
            /\ task.snapshot = task.delivered \cup task.failed \cup task.skipped
            /\ \A u \in task.failed : Absent(manager', u)
            /\ \A u \in UserIds \ task.failed :
                  Absent(manager', u) <=> Absent(manager, u)]_vars

\* C18 witness: a broadcast is past a failed recipient and has delivered to a
\* recipient after it, the failed user still being registered
C18_Witness ==
    /\ task.pc = "bcast"
    /\ task.yielded
    /\ \E u \in task.failed : u \in DOMAIN manager.active_connections

\* the connection registered for u works
RegisteredHealthy(u) ==
    /\ u \in DOMAIN manager.active_connections
    /\ sockets[manager.active_connections[u]].client_state = "CONNECTED"
    /\ ~SocketRaises(manager.active_connections[u])

\* C19: the cleanup of a broadcast removes only connections that failed: when
\* the send to u failed and u registered a new connection before the cleanup
\* loop (another recipient having been sent to in between), the new
\* connection is still registered when the broadcast returns.
C19_CleanupKeepsNewConnection ==
    [][(task.pc = "bcast" /\ task'.pc = "idle") =>
          \A u \in task.failed :
              (task.yielded /\ RegisteredHealthy(u)) =>
                  /\ u \in DOMAIN manager'.active_connections
                  /\ manager'.active_connections[u] =
                        manager.active_connections[u]]_vars

\* C20: user_roles and active_connections have the same keys and every user
\* of admin_connections is one of them, so customer_connections (the number
\* of active connections minus the number of admin connections) is not
\* negative.
C20_RegistryKeysAgree ==
    /\ DOMAIN manager.user_roles = DOMAIN manager.active_connections
    /\ manager.admin_connections \subseteq DOMAIN manager.active_connections
    /\ Cardinality(DOMAIN manager.active_connections)
          - Cardinality(manager.admin_connections) >= 0

\* C20 witness: a broadcast has removed the agent's failed connection while a
\* customer and the admin are registered
C20_Witness ==
    /\ task.pc = "idle" /\ task.calls > 0
    /\ \E e \in BagToSet(sent) : e.type = "connection_established" /\ e.ref = ToString("u2")
    /\ \E s \in SocketIds : sockets[s].phase = "loop" /\ sockets[s].token = "u2"
    /\ Absent(manager, "u2")
    /\ "u1" \in DOMAIN manager.active_connections
    /\ "u3" \in manager.admin_connections


(***************************************************************************)
(* Properties of the notification endpoints                                *)
(***************************************************************************)

\* this step is a request of user u to one of the single-item endpoints,
\* naming notification nid
SingleItemRequest(u, nid) ==
    \/ GetNotification(u, nid)
    \/ MarkNotificationRead(u, nid)
    \/ DeleteNotification(u, nid)

\* this step is a REST request of user u to its own notifications
RestNotificationRequest(u) ==
    \/ \E nid \in NotificationIds : SingleItemRequest(u, nid)
    \/ MarkAllNotificationsRead(u)
    \/ \E ids \in SUBSET NotificationIds, b \in BOOLEAN :
          BulkUpdateNotifications(u, ids, b)

\* this step is the handling of a mark_notification_read message user u sent
\* over its websocket connection
WsNotificationRequest(u) ==
    \E s \in SocketIds, nid \in NotificationIds :
       /\ sockets[s].token = u
       /\ ClientMarkRead(s, nid)

\* the stored notifications of users other than u
NotificationsOfOthers(ns, u) == {n \in ns : n.user_id # u}

\* nid is the id of a stored notification of a user other than u
NamesForeign(u, nid) ==
    \E n \in notifications : n.id = nid /\ n.user_id # u

\* the step leaves the notifications of the others as they were
OthersUnchanged(u) ==
    NotificationsOfOthers(notifications', u)
       = NotificationsOfOthers(notifications, u)

\* the answer of the step shows only notifications of u
ShowsOwnOnly(u) ==
    /\ http_resp'.user = u
    /\ \A n \in http_resp'.body : n \in notifications /\ n.user_id = u

\* the single-item request of the step that names a notification of another
\* user is answered 404
ForeignAnswered404(u) ==
    \A nid \in NotificationIds :
       (SingleItemRequest(u, nid) /\ NamesForeign(u, nid))
          => http_resp'.status = 404

\* C21: through GET, PUT read and DELETE on /api/notifications/{id},
\* mark-all-read, bulk-update and the websocket mark_notification_read message
\* a user reads and changes only notifications whose user_id is its own: the
\* notifications of the other users are left unchanged, the answer shows none
\* of them, and a single-item request naming one of them is answered 404
C21_OwnNotificationsOnly ==
    [][\A u \in UserIds :
          /\ RestNotificationRequest(u) =>
                (OthersUnchanged(u) /\ ShowsOwnOnly(u) /\ ForeignAnswered404(u))
          /\ WsNotificationRequest(u) => OthersUnchanged(u)]_vars

\* a single-item request that named the stored notification of another user
\* has been answered 404
C21_Witness ==
    /\ http_resp.status = 404
    /\ http_resp.op \in {"get_notification", "mark_notification_read",
                         "delete_notification"}
    /\ \E n \in notifications :
          /\ n.id = http_resp.notification
          /\ n.user_id # http_resp.user
          /\ ~n.is_read
    /\ \E n \in notifications : n.user_id = http_resp.user /\ n.is_read


\* the "notification_read_confirmed" envelopes this step sent
ConfirmationsSent ==
    {e \in BagToSet(sent') :
        /\ e.type = "notification_read_confirmed"
        /\ CopiesIn(e, sent') > CopiesIn(e, sent)}

\* after the step the notification envelope e names is stored, belongs to the
\* user of the connection e was sent on, and is read
ConfirmedIsOwnAndRead(e) ==
    \E n \in notifications' :
       /\ ToString(n.id) = e.ref
       /\ n.user_id = sockets[e.sock].token
       /\ n.is_read

\* C22: the server sends a "notification_read_confirmed" envelope for
\* notification n to user u only if n exists, belongs to u and now has
\* is_read = true
C22_ConfirmationOnlyForOwnRead ==
    [][\A e \in ConfirmationsSent : ConfirmedIsOwnAndRead(e)]_vars


(***************************************************************************)
(* Properties of the assignee                                              *)
(***************************************************************************)

\* the user the ticket is assigned to is stored and is an agent or an admin
AssigneeIsStaff(t) ==
    /\ tickets[t].assigned_to \in DOMAIN users
    /\ users[tickets[t].assigned_to].role \in {"agent", "admin"}

\* C23: in every reachable state a ticket whose assigned_to is not null refers
\* to a stored user whose role is agent or admin, after any sequence of
\* create_ticket, update_ticket, assign_ticket, update_user_role and
\* delete_user requests
C23_AssigneeIsStoredStaff ==
    \A t \in DOMAIN tickets :
       tickets[t].assigned_to # None => AssigneeIsStaff(t)

====
